---------------------------- MODULE Spec2Model ----------------------------
(***************************************************************************)
(* A model of fmch/hsicos.py (flossi/mlgpp): the flux-footprint-to-imagery *)
(* matching pipeline of the HSICOS class and the helper functions it uses. *)
(*                                                                         *)
(* The specifications that share the module:                              *)
(*   SpecNearest  the pure helper nearest(items, target)                   *)
(*   Spec         one run of HSICOS.hsi_geom_crop over a list of sites     *)
(*   SpecQC       crs_and_cropping followed by hsi_qc, run repeatedly      *)
(*   SpecBands    the band lists of one site: crs_and_cropping, called     *)
(*                repeatedly, then the spectral window of                  *)
(*                _crop_hsi_2_geoms                                        *)
(*   SpecHeights  the displacement and sensor heights that                 *)
(*                _load_icos_subset looks up for the images of one site    *)
(*   SpecDownload the remote downloads icos_cds_get and icos_ppi_get       *)
(*   SpecNames    the file name hsi_geom_crop writes and the one          *)
(*                load_cropped_db reads                                    *)
(*   SpecImgDb    update_img_db                                            *)
(*   SpecPpfd     _ppfd_check and the site filter of hsi_geom_crop         *)
(*   SpecPpi      icos_ppi_get: the PPI file of every image of a site      *)
(*   SpecQcTable  hsi_qc over a list of sites, and the table it returns    *)
(***************************************************************************)
EXTENDS Integers, Sequences, FiniteSets, TLC

(***************************************************************************)
(* Bounds of the model.                                                    *)
(***************************************************************************)
\* longest candidate list handed to nearest
MaxLen == 3
\* candidates and targets of nearest are drawn from 0..MaxVal
MaxVal == 3

\* most image acquisitions in the image table of one run
MaxImgs == 2

VARIABLES
    \* ---- SpecNearest ----
    items,      \* the candidate list passed to nearest
    target,     \* the target value passed to nearest
    result,     \* what the call returned (NoResult before the call)
    npc,        \* "init" before the call, "returned" / "raised" after it
    \* ---- Spec: one run of hsi_geom_crop ----
    zonal,          \* argument zonal
    upw,            \* argument upw
    icos_list,      \* argument icos_list (a sequence of site names)
    img_db,         \* self.img_db: one row per image acquisition
    pc,             \* position of the run
    site_j,         \* index into icos_list of the site being processed
    img_i,          \* loop index of the per-image loops
    icos_subset,    \* rows returned by _load_icos_subset for the site
    missd,          \* timestamps of the site without any flux record
    ZM,             \* sensor height minus displacement height, per image
    geoms,          \* _model_geoms: geometry per image
    ffp_params,     \* _model_geoms: matched flux row per image
    ffp_calls,      \* every call of ffp.FFP made so far (img_db row, inputs)
    flx_geom_gdf,   \* the frame _model_geoms returns for the site
    geom_px_avgs,   \* _crop_hsi_2_geoms: band means per image
    masked,         \* the img_db rows whose image _local_mask was applied to
    flx_hsi_gdf_l,  \* per-site frames collected by hsi_geom_crop
    ret,            \* the frame hsi_geom_crop returned
    err,            \* the exception that ended the run ("" if none)
    gc_save,        \* argument save of hsi_geom_crop, as read at its end
    gpkg,           \* whether the output file <...>.gpkg has been written
    self_flx_hsi_gdf,   \* self.flx_hsi_gdf
    \* ---- SpecQC: crs_and_cropping and hsi_qc for one site, twice ----
    img_paths,      \* per image: number of raw archives the glob finds
    crop_files,     \* per image: what the 6 km crop on disk holds ("none")
    qc_files,       \* per image: whether the quicklook <...>_qc.png exists
    save,           \* argument save of the hsi_qc call under way
    filestatus,     \* hsi_qc: status per image of the call under way
    returned,       \* the status column of each frame hsi_qc returned
    qpc,            \* position of the crop pipeline
    qc_i,           \* loop index of hsi_qc
    qerr,           \* the exception that ended the crop pipeline
    \* ---- SpecBands: the band lists of the images of one site ----
    sr,             \* argument sr of hsi_geom_crop
    scenes,         \* per image: the wavelength list of the raw scene
    crop_wls,       \* per image: the band descriptions of the 6 km crop
    skipped,        \* per image: flagged 'icos_na' by _model_geoms
    bpc,            \* position of the band pipeline
    b_i,            \* loop index of _crop_hsi_2_geoms
    wl_min,         \* _crop_hsi_2_geoms: first index of the window
    wl_max,         \* _crop_hsi_2_geoms: index after the window
    nbands,         \* _crop_hsi_2_geoms: number of band columns
    px_bands,       \* per image: the band indices whose means were taken
    band_cols,      \* the band columns of the frame that was returned
    berr,           \* the exception that ended the band pipeline
    \* ---- SpecHeights: heights of one site ----
    igbp,           \* land cover class of the site
    D_hdates,       \* canopy-height records in file order
    Z_hdates0,      \* installation records of the sensor in file order
    idate,          \* the image the loop over datelist looks at
    D_avg,          \* flag D_avg
    D_default,      \* flag D_default
    D_img,          \* displacement height of the image looked at last
    Z_img,          \* sensor height of the image looked at last
    ZM_i,           \* ZM[i] of that image
    hpc,            \* position of the lookup
    herr,           \* the exception that ended the lookup
    \* ---- SpecDownload: remote downloads ----
    jobs,           \* the downloads to make, in order
    d_i,            \* index of the download under way
    dlog,           \* the attempts and waits made so far
    dpc,            \* position of the download under way
    derr,           \* the exception that ended the downloads
    \* ---- SpecNames: the output file of hsi_geom_crop and its reload ----
    fn_sensor,      \* self.sensor
    fn_args,        \* arguments sr, zonal, upw, aggr of hsi_geom_crop
    fn_written,     \* the file hsi_geom_crop wrote: name and self.ptype
    fn_read,        \* the call of load_cropped_db: arguments and file name
    fpc,            \* position of the naming pipeline
    \* ---- SpecImgDb: update_img_db ----
    old_img_db,     \* the table read from img_csv
    u_img_db,       \* self.img_db
    u_ret,          \* the site list update_img_db returned
    upc,            \* position of update_img_db
    uerr,           \* the exception that ended update_img_db
    \* ---- SpecPpfd: _ppfd_check as used by hsi_geom_crop ----
    site_list,      \* argument icos_list of hsi_geom_crop
    flux_cols,      \* per site: the radiation columns of its flux file, or no file
    r_i,            \* loop index of _ppfd_check
    no_ppfd,        \* list no_ppfd
    no_rad,         \* list no_rad
    r_icos_list,    \* icos_list of hsi_geom_crop after the check
    rpc,            \* position of the check
    rerr,           \* the exception that ended the check
    \* ---- icos_ppi_get ----
    datetimes,      \* the startdates of the site still without PPI file, 0 = no match
    ppi_files,      \* the PPI file kept for each of them, empty = none
    ppi_col,        \* flx_hsi_gdf.ppi_file of these rows
    ts_i,           \* position of the timestamp loop
    sat,            \* position of the satellite loop
    matches,        \* the search results per satellite searched for this timestamp
    ct,             \* while loop counter
    na_rate,        \* NA rate in percent of the file tested last
    tested,         \* the files tested for this timestamp, in order
    kpc,            \* position in icos_ppi_get
    kerr,           \* the exception that ended it
    \* ---- hsi_qc, all sites ----
    t_img_db,       \* img_db rows: name, dataTakeID, date
    t_icos_list,    \* the icos_list argument
    t_date,         \* the date argument
    t_found,        \* what the checks find for the image of each row
    t_j,            \* position of the site loop
    filestatus_l,   \* the status lists of the sites passed
    filestatus_df,  \* the returned table
    tpc,            \* position in hsi_qc
    terr            \* the exception that ended it

nvars == <<items, target, result, npc>>

pvars == <<zonal, upw, icos_list, img_db, pc, site_j, img_i, icos_subset,
           missd, ZM, geoms, ffp_params, ffp_calls, flx_geom_gdf,
           geom_px_avgs, masked, flx_hsi_gdf_l, ret, err, gc_save, gpkg,
           self_flx_hsi_gdf>>

qvars == <<img_paths, crop_files, qc_files, save, filestatus, returned, qpc,
           qc_i, qerr>>

bvars == <<sr, scenes, crop_wls, skipped, bpc, b_i, wl_min, wl_max, nbands,
           px_bands, band_cols, berr>>

hvars == <<igbp, D_hdates, Z_hdates0, idate, D_avg, D_default, D_img, Z_img,
           ZM_i, hpc, herr>>

dvars == <<jobs, d_i, dlog, dpc, derr>>

fvars == <<fn_sensor, fn_args, fn_written, fn_read, fpc>>

uvars == <<old_img_db, u_img_db, u_ret, upc, uerr>>

rvars == <<site_list, flux_cols, r_i, no_ppfd, no_rad, r_icos_list, rpc,
            rerr>>

kvars == <<datetimes, ppi_files, ppi_col, ts_i, sat, matches, ct, na_rate,
            tested, kpc, kerr>>

tvars == <<t_img_db, t_icos_list, t_date, t_found, t_j, filestatus_l,
            filestatus_df, tpc, terr>>

vars == <<nvars, pvars, qvars, bvars, hvars, dvars, fvars, uvars, rvars,
          kvars, tvars>>

(***************************************************************************)
(* nearest (hsicos.py 249-250)                                             *)
(***************************************************************************)
NoResult == "no_result"

Abs(x) == IF x < 0 THEN -x ELSE x

\* key=lambda x: abs(x - target)
Key(x, t) == Abs(x - t)

\* Python's min(iterable, key=...) scans left to right and replaces the
\* running minimum only when a key is strictly smaller.
RECURSIVE MinScan(_, _, _, _)
MinScan(its, t, i, best) ==
    IF i > Len(its) THEN best
    ELSE MinScan(its, t, i + 1,
                 IF Key(its[i], t) < Key(best, t) THEN its[i] ELSE best)

\* the same scan keeping the last of several minima
RECURSIVE MinScanLast(_, _, _, _)
MinScanLast(its, t, i, best) ==
    IF i > Len(its) THEN best
    ELSE MinScanLast(its, t, i + 1,
                     IF Key(its[i], t) <= Key(best, t) THEN its[i] ELSE best)

nearest_last(its, t) == MinScanLast(its, t, 2, its[1])

nearest(its, t) == MinScan(its, t, 2, its[1])

(***************************************************************************)
(* Values shared by the pipeline                                           *)
(***************************************************************************)
\* the project's missing-value sentinel
Sentinel == -9999

\* np.nan, as a code no pixel, mean or product of the model can take
NaN == 99999

\* excerpt of the site table of _build_icos_meta: one site per ecosystem
\* class of the table; "XX-Urb" stands for a row added to self.icos_db
\* whose class is outside the classes the code enumerates
icos_db ==
    [s \in {"NL-Loo", "IT-Tor", "IT-Lsn", "IT-Cp2", "BE-Lon", "DE-Hai",
            "ES-LM1", "DE-Hte", "CH-Lae", "BE-Maa", "ES-Cnd", "XX-Urb"} |->
        CASE s = "NL-Loo" -> "ENF"
          [] s = "IT-Tor" -> "GRA"
          [] s = "IT-Lsn" -> "OSH"
          [] s = "IT-Cp2" -> "EBF"
          [] s = "BE-Lon" -> "CRO"
          [] s = "DE-Hai" -> "DBF"
          [] s = "ES-LM1" -> "SAV"
          [] s = "DE-Hte" -> "WET"
          [] s = "CH-Lae" -> "MF"
          [] s = "BE-Maa" -> "CSH"
          [] s = "ES-Cnd" -> "WSA"
          [] OTHER        -> "URB"]

\* the micrometeorological inputs of the footprint model that are tested
\* for the sentinel
FfpFields == {"WS", "PBLH", "MO_LENGTH", "V_SIGMA", "USTAR", "WD"}

\* band columns that remain after the spectral window is applied
Bands == {"b001", "b002"}

\* pixels of a crop
Pixels == {"p1", "p2"}

\* src.nodata of the cropped PRISMA GeoTIFF
NaVal == 0

\* the pixels of one band inside a geometry (no-data, a negative value, a
\* reflectance): no valid pixel, one valid pixel beside a no-data pixel, two
\* valid pixels
PixelColumns ==
    { [p1 |-> NaVal, p2 |-> -1], [p1 |-> NaVal, p2 |-> 2], [p1 |-> 2, p2 |-> 2] }

\* PPFD_IN values of a flux record: missing, or a measurement
PpfdVals == {Sentinel, 914}

\* heights (in decimetres) of sensor and canopy records
Heights == {1, 2}

\* default canopy height of wetland sites, 0.1 m
DDefault == 1

\* acquisition timestamps: <<calendar day, half-hour slot>>
Stamps == {<<1, 1>>, <<1, 2>>, <<2, 1>>}

\* missd = [pd.Timestamp('19000101 00:00:00')]
DummyStamp == <<0, 0>>

\* values of the 'clouds' column when a run starts: a free comment, or the
\* flags an earlier run on the same instance has written
InitClouds == {"", "icos_na", "hsi_na"}

NoFrame == <<>>

(***************************************************************************)
(* The image table and the arguments of a run                              *)
(***************************************************************************)
\* rows 1..n1 belong to the first site of the list, the others to the second
NameOf(sites, n1, k) == IF k <= n1 THEN sites[1] ELSE sites[2]

\* The image tables of N rows for the site list `sites`: the first image of
\* a site is taken at <<1, 1>>, dataTakeIDs are the row numbers, and the
\* first image of a second site may be a scene that also covers the first
\* site (the same dataTakeID); at most one row carries an earlier flag.
TablesFor(sites, n1, N) ==
    { [k \in 1..N |->
          [name   |-> NameOf(sites, n1, k),
           dtake  |-> IF k = n1 + 1 /\ shared THEN 1 ELSE k,
           day    |-> st[k][1],
           slot   |-> st[k][2],
           clouds |-> c[k]]] :
        st \in {f \in [1..N -> Stamps] :
                    \A k \in 1..N : (k = 1 \/ k = n1 + 1) => f[k] = <<1, 1>>},
        c \in {f \in [1..N -> InitClouds] :
                    Cardinality({k \in 1..N : f[k] # ""}) <= 1},
        shared \in IF N > n1 THEN BOOLEAN ELSE {FALSE} }

\* one site with 1..MaxImgs images, or two sites sharing MaxImgs images
RunWorlds ==
    UNION { { [sites |-> <<"BE-Lon">>, table |-> t] :
                t \in TablesFor(<<"BE-Lon">>, N, N) } : N \in 1..MaxImgs }
    \cup
    UNION { UNION { { [sites |-> <<"BE-Lon", "DE-Hai">>, table |-> t] :
                        t \in TablesFor(<<"BE-Lon", "DE-Hai">>, n1, N) } :
                    n1 \in 1..(N - 1) } : N \in 2..MaxImgs }

\* any single site of the table, one image, no earlier flags
EcoWorlds ==
    { [sites |-> <<s>>,
       table |-> [k \in 1..1 |-> [name |-> s, dtake |-> 1, day |-> 1,
                                  slot |-> 1, clouds |-> ""]]] :
        s \in DOMAIN icos_db }

\* img_db row numbers of a site, in table order (datelist.index)
RECURSIVE RowsFrom(_, _, _)
RowsFrom(db, site, k) ==
    IF k > Len(db) THEN <<>>
    ELSE (IF db[k].name = site THEN <<k>> ELSE <<>>) \o RowsFrom(db, site, k + 1)

SiteRows(db, site) == RowsFrom(db, site, 1)

CurSite == icos_list[site_j]

CurRows == SiteRows(img_db, CurSite)

NImgs == Len(CurRows)

\* values of the variables of a run that has not started
RunIdle ==
    /\ zonal = FALSE
    /\ upw = FALSE
    /\ icos_list = <<>>
    /\ img_db = <<>>
    /\ pc = "off"
    /\ site_j = 0
    /\ img_i = 0
    /\ icos_subset = {}
    /\ missd = {}
    /\ ZM = <<>>
    /\ geoms = <<>>
    /\ ffp_params = <<>>
    /\ ffp_calls = {}
    /\ flx_geom_gdf = <<>>
    /\ geom_px_avgs = <<>>
    /\ masked = {}
    /\ flx_hsi_gdf_l = <<>>
    /\ ret = NoFrame
    /\ err = ""
    /\ gc_save = FALSE
    /\ gpkg = FALSE
    /\ self_flx_hsi_gdf = NoFrame

NearestIdle ==
    /\ items = <<>>
    /\ target = 0
    /\ result = NoResult
    /\ npc = "off"

QcIdle ==
    /\ img_paths = <<>>
    /\ crop_files = <<>>
    /\ qc_files = <<>>
    /\ save = FALSE
    /\ filestatus = <<>>
    /\ returned = <<>>
    /\ qpc = "off"
    /\ qc_i = 0
    /\ qerr = ""

BandsIdle ==
    /\ sr = ""
    /\ scenes = <<>>
    /\ crop_wls = <<>>
    /\ skipped = <<>>
    /\ bpc = "off"
    /\ b_i = 0
    /\ wl_min = 0
    /\ wl_max = 0
    /\ nbands = 0
    /\ px_bands = <<>>
    /\ band_cols = <<>>
    /\ berr = ""

HeightsIdle ==
    /\ igbp = ""
    /\ D_hdates = <<>>
    /\ Z_hdates0 = <<>>
    /\ idate = <<>>
    /\ D_avg = FALSE
    /\ D_default = FALSE
    /\ D_img = 0
    /\ Z_img = 0
    /\ ZM_i = 0
    /\ hpc = "off"
    /\ herr = ""

DownloadIdle ==
    /\ jobs = <<>>
    /\ d_i = 0
    /\ dlog = <<>>
    /\ dpc = "off"
    /\ derr = ""

NamesIdle ==
    /\ fn_sensor = ""
    /\ fn_args = <<>>
    /\ fn_written = <<>>
    /\ fn_read = <<>>
    /\ fpc = "off"

ImgDbIdle ==
    /\ old_img_db = <<>>
    /\ u_img_db = <<>>
    /\ u_ret = <<>>
    /\ upc = "off"
    /\ uerr = ""

PpfdIdle ==
    /\ site_list = <<>>
    /\ flux_cols = <<>>
    /\ r_i = 0
    /\ no_ppfd = <<>>
    /\ no_rad = <<>>
    /\ r_icos_list = <<>>
    /\ rpc = "off"
    /\ rerr = ""

PpiIdle ==
    /\ datetimes = <<>>
    /\ ppi_files = <<>>
    /\ ppi_col = <<>>
    /\ ts_i = 0
    /\ sat = ""
    /\ matches = <<>>
    /\ ct = 0
    /\ na_rate = 0
    /\ tested = <<>>
    /\ kpc = "off"
    /\ kerr = ""

QcTableIdle ==
    /\ t_img_db = <<>>
    /\ t_icos_list = <<>>
    /\ t_date = 0
    /\ t_found = <<>>
    /\ t_j = 0
    /\ filestatus_l = <<>>
    /\ filestatus_df = <<>>
    /\ tpc = "off"
    /\ terr = ""

\* the specifications that are not running
OthersIdle ==
    /\ BandsIdle
    /\ HeightsIdle
    /\ DownloadIdle
    /\ NamesIdle
    /\ ImgDbIdle
    /\ PpfdIdle
    /\ PpiIdle
    /\ QcTableIdle

\* hsi_geom_crop has been called and is about to process its first site
Init ==
    /\ NearestIdle
    /\ QcIdle
    /\ OthersIdle
    /\ gc_save = FALSE
    /\ gpkg = FALSE
    /\ self_flx_hsi_gdf = NoFrame
    /\ zonal \in BOOLEAN
    /\ upw \in BOOLEAN
    /\ \E w \in RunWorlds \cup EcoWorlds :
          /\ icos_list = w.sites
          /\ img_db = w.table
    /\ pc = "site"
    /\ site_j = 1
    /\ img_i = 0
    /\ icos_subset = {}
    /\ missd = {}
    /\ ZM = <<>>
    /\ geoms = <<>>
    /\ ffp_params = <<>>
    /\ ffp_calls = {}
    /\ flx_geom_gdf = <<>>
    /\ geom_px_avgs = <<>>
    /\ masked = {}
    /\ flx_hsi_gdf_l = <<>>
    /\ ret = NoFrame
    /\ err = ""

\* the locals of one pass of the site loop are gone
ClearLocals ==
    /\ icos_subset' = {}
    /\ missd' = {}
    /\ ZM' = <<>>
    /\ geoms' = <<>>
    /\ ffp_params' = <<>>
    /\ flx_geom_gdf' = <<>>
    /\ geom_px_avgs' = <<>>
    /\ img_i' = 0

\* an exception leaves hsi_geom_crop: its locals are gone, self.img_db
\* keeps what was written to it
Raise(e) ==
    /\ pc' = "error"
    /\ err' = e
    /\ ClearLocals

(***************************************************************************)
(* hsi_geom_crop, head of the site loop (hsicos.py 1974-1998)              *)
(***************************************************************************)
\* The raw scenes of the site are globbed per dataTakeID; more than one
\* match for a dataTakeID is an error.
StartSite ==
    /\ pc = "site"
    /\ \E several \in BOOLEAN :
          IF several
          THEN Raise("ValueError: More than 1 matching img")
          ELSE /\ pc' = "load"
               /\ UNCHANGED <<err, icos_subset, missd, ZM, geoms, ffp_params,
                              flx_geom_gdf, geom_px_avgs, img_i>>
    /\ UNCHANGED <<zonal, upw, icos_list, img_db, site_j, ffp_calls, masked,
                   flx_hsi_gdf_l, ret>>
    /\ UNCHANGED <<nvars, qvars, bvars, hvars, dvars, fvars, uvars, rvars, kvars, tvars>>
    /\ UNCHANGED <<gc_save, gpkg, self_flx_hsi_gdf>>

(***************************************************************************)
(* _load_icos_subset (hsicos.py 1384-1609), aggregate = 'na', the site's   *)
(* files in ICOS format, PPFD_IN present, the site not in self._era_blh    *)
(***************************************************************************)
\* PAR = PPFD_IN / 4.57, and PAR < -100 becomes -9999 (1447, 1457)
ParFromPpfd(p) ==
    LET v == (p * 100) \div 457
    IN  IF v < -100 THEN Sentinel ELSE v

\* the fields that hold the sentinel alone in some record of the flux files
NaSingles == {"WD"}

\* What the flux files hold for one half-hourly timestamp: no record at
\* all, or a record with PPFD_IN and with the sentinel in the fields metna.
\* In zonal mode the micrometeorological file is not read.
FluxRecs(zon) ==
    {[present |-> FALSE, ppfd |-> Sentinel, metna |-> {}]}
    \cup {[present |-> TRUE, ppfd |-> q, metna |-> {}] : q \in PpfdVals}
    \cup (IF zon THEN {}
          ELSE {[present |-> TRUE, ppfd |-> 914, metna |-> {f}] : f \in NaSingles})

\* flx_gpp_temp: one row per timestamp of the images that has a record
\* (1461), merged with the micrometeorological columns (1604-1607)
FluxRow(st, rec) ==
    [day   |-> st[1],
     slot  |-> st[2],
     prod  |-> IF rec.present THEN 7 ELSE Sentinel,
     par   |-> IF rec.present THEN ParFromPpfd(rec.ppfd) ELSE Sentinel,
     metna |-> rec.metna]

\* 1485-1495: when the subset has fewer rows than the site has images, the
\* timestamps without a row are collected in missd and added back as rows
\* of -9999; otherwise missd keeps its dummy entry.
MissdOf(stamps, file, n) ==
    LET present == {st \in stamps : file[st].present}
    IN  IF n > Cardinality(present) THEN stamps \ present ELSE {DummyStamp}

SubsetRows(stamps, file, n) ==
    LET present == {st \in stamps : file[st].present}
    IN  {FluxRow(st, file[st]) : st \in present}
        \cup (IF n > Cardinality(present)
              THEN {FluxRow(st, file[st]) : st \in stamps \ present}
              ELSE {})

\* [x.date() for x in missd]
MissdDates(m) == {st[1] : st \in m}

\* ecosystem classes for which a canopy height is looked up or defaulted
\* (1512-1539)
HeightClasses ==
    {"DBF", "ENF", "EBF", "MF", "CRO", "GRA", "OSH", "CSH", "SAV", "WSA", "WET"}

CanopyHeights(eco) == IF eco = "WET" THEN {DDefault} ELSE Heights

\* 1586: the consistency test on canopy height D and sensor height Z
HeightError(Z, D) == D > Z

LoadIcosSubset ==
    /\ pc = "load"
    /\ LET rows   == CurRows
           n      == NImgs
           eco    == icos_db[CurSite]
           stamps == {<<img_db[rows[k]].day, img_db[rows[k]].slot>> : k \in 1..n}
       IN  \E file \in [stamps -> FluxRecs(zonal)],
              Z \in Heights, D \in CanopyHeights(eco) :
             LET m      == MissdOf(stamps, file, n)
                 sub    == SubsetRows(stamps, file, n)
                 \* images whose date is not in missd (1573)
                 looked == {k \in 1..n : img_db[rows[k]].day \notin MissdDates(m)}
             IN  IF zonal
                 THEN \* 1497-1499: return before the heights are read
                      /\ icos_subset' = sub
                      /\ missd' = m
                      /\ ZM' = [k \in 1..n |-> Sentinel]
                      /\ pc' = "geoms"
                      /\ UNCHANGED <<err, geoms, ffp_params, flx_geom_gdf,
                                     geom_px_avgs, img_i>>
                 ELSE IF looked # {} /\ eco \notin HeightClasses
                 THEN Raise("NameError: D_hdates")
                 ELSE IF looked # {} /\ HeightError(Z, D)
                 THEN Raise("ValueError: Canopy height D > sensor height Z")
                 ELSE /\ icos_subset' = sub
                      /\ missd' = m
                      /\ ZM' = [k \in 1..n |->
                                  IF k \in looked THEN Z - D ELSE Sentinel]
                      /\ pc' = "geoms"
                      /\ UNCHANGED <<err, geoms, ffp_params, flx_geom_gdf,
                                     geom_px_avgs, img_i>>
    /\ UNCHANGED <<zonal, upw, icos_list, img_db, site_j, ffp_calls, masked,
                   flx_hsi_gdf_l, ret>>
    /\ UNCHANGED <<nvars, qvars, bvars, hvars, dvars, fvars, uvars, rvars, kvars, tvars>>
    /\ UNCHANGED <<gc_save, gpkg, self_flx_hsi_gdf>>

(***************************************************************************)
(* _model_geoms (hsicos.py 1614-1734)                                      *)
(***************************************************************************)
UnsetGeom == [kind |-> "unset", r |-> 0, zm |-> 0]

\* geoms[i] = None
NoneGeom == [kind |-> "none", r |-> 0, zm |-> 0]

\* flx_loc.buffer(zr)
Circle(zr) == [kind |-> "circle", r |-> zr, zm |-> 0]

\* the 80% contour the footprint model returns for the inputs
FfpPolygon(zm) == [kind |-> "ffp", r |-> 0, zm |-> zm]

\* 1647-1656: the classes with a buffer radius
ZonalClasses ==
    {"MF", "DBF", "EBF", "ENF", "SAV", "WSA", "GRA", "OSH", "CSH", "WET", "CRO"}

\* a radius table that gives cropland the grassland radius
ZonalRadiusCroAsGra(eco) ==
    CASE eco \in {"MF", "DBF", "EBF", "ENF"} -> 80
      [] eco \in {"SAV", "WSA"}              -> 60
      [] eco \in {"GRA", "OSH", "CSH", "CRO"} -> 50
      [] eco = "WET"                         -> 40
      [] OTHER                               -> 0

\* 1647-1656: zr by ecosystem class (0 stands for no radius)
ZonalRadius(eco) ==
    CASE eco \in {"MF", "DBF", "EBF", "ENF"} -> 80
      [] eco \in {"SAV", "WSA"}              -> 60
      [] eco \in {"GRA", "OSH", "CSH"}       -> 50
      [] eco = "WET"                         -> 40
      [] eco = "CRO"                         -> 30
      [] OTHER                               -> 0

UnsetParams == [kind |-> "unset", prod |-> 0, par |-> 0, metna |-> {}]

\* 1638-1662: the buffer of zonal mode, or placeholders
ModelGeomsSetup ==
    /\ pc = "geoms"
    /\ IF zonal /\ icos_db[CurSite] \notin ZonalClasses
       THEN Raise("ValueError: Ecosystem not supported")
       ELSE /\ geoms' = [k \in 1..NImgs |->
                            IF zonal THEN Circle(ZonalRadius(icos_db[CurSite]))
                            ELSE UnsetGeom]
            /\ ffp_params' = [k \in 1..NImgs |-> UnsetParams]
            /\ img_i' = 1
            /\ pc' = "geoms_loop"
            /\ UNCHANGED <<err, icos_subset, missd, ZM, flx_geom_gdf,
                           geom_px_avgs>>
    /\ UNCHANGED <<zonal, upw, icos_list, img_db, site_j, ffp_calls, masked,
                   flx_hsi_gdf_l, ret>>
    /\ UNCHANGED <<nvars, qvars, bvars, hvars, dvars, fvars, uvars, rvars, kvars, tvars>>
    /\ UNCHANGED <<gc_save, gpkg, self_flx_hsi_gdf>>

\* 1668-1669: the rows of the subset on the image's calendar date; one row
\* squeezes to a Series, any other number of rows stays a DataFrame
MatchedRows(sub, day) == {r \in sub : r.day = day}

ParamsOf(sub, day) ==
    LET mr == MatchedRows(sub, day)
    IN  IF Cardinality(mr) = 1
        THEN LET r == CHOOSE x \in mr : TRUE
             IN  [kind |-> "series", prod |-> r.prod, par |-> r.par,
                  metna |-> r.metna]
        ELSE [kind |-> "frame", prod |-> 0, par |-> 0, metna |-> {}]

\* the sentinel test without the test on missd
IcosNaFieldsOnly(p, day, m) == p.metna \cap FfpFields # {}

\* the sentinel test that leaves out the wind direction
IcosNaNoWD(p, day, m) ==
    \/ p.metna \cap (FfpFields \ {"WD"}) # {}
    \/ day \in MissdDates(m)

\* 1677-1678: a sentinel in one of the six inputs, or a date in missd
IcosNa(p, day, m) ==
    \/ p.metna \cap FfpFields # {}
    \/ day \in MissdDates(m)

\* 1685: pd.Series(data=[0]*len(fluxvars), index=fluxvars); PAR is one of
\* the fluxvars
ZeroParams == [kind |-> "zeros", prod |-> 0, par |-> 0, metna |-> {}]

\* 1680-1681: every row of img_db with the dataTakeID gets the flag
FlagDtake(db, dt, flag) ==
    [k \in 1..Len(db) |->
        IF db[k].dtake = dt THEN [db[k] EXCEPT !.clouds = flag] ELSE db[k]]

\* 1666-1696: one pass of the loop over the images of the site
ModelGeomsStep ==
    /\ pc = "geoms_loop"
    /\ img_i <= NImgs
    /\ LET row == img_db[CurRows[img_i]]
           p   == ParamsOf(icos_subset, row.day)
       IN  IF zonal
           THEN /\ ffp_params' = [ffp_params EXCEPT ![img_i] = p]
                /\ img_i' = img_i + 1
                /\ UNCHANGED <<geoms, img_db, ffp_calls, pc, err>>
                /\ UNCHANGED <<icos_subset, missd, ZM, flx_geom_gdf, geom_px_avgs>>
           ELSE IF p.kind = "frame"
           THEN /\ Raise("ValueError: truth value of a Series is ambiguous")
                /\ UNCHANGED <<img_db, ffp_calls>>
           ELSE IF IcosNa(p, row.day, missd)
           THEN /\ geoms' = [geoms EXCEPT ![img_i] = NoneGeom]
                /\ img_db' = FlagDtake(img_db, row.dtake, "icos_na")
                /\ ffp_params' = [ffp_params EXCEPT ![img_i] = ZeroParams]
                /\ img_i' = img_i + 1
                /\ UNCHANGED <<ffp_calls, pc, err>>
                /\ UNCHANGED <<icos_subset, missd, ZM, flx_geom_gdf, geom_px_avgs>>
           ELSE /\ ffp_calls' = ffp_calls \cup
                       {[row |-> CurRows[img_i], zm |-> ZM[img_i],
                         metna |-> p.metna]}
                /\ geoms' = [geoms EXCEPT ![img_i] = FfpPolygon(ZM[img_i])]
                /\ ffp_params' = [ffp_params EXCEPT ![img_i] = p]
                /\ img_i' = img_i + 1
                /\ UNCHANGED <<img_db, pc, err>>
                /\ UNCHANGED <<icos_subset, missd, ZM, flx_geom_gdf, geom_px_avgs>>
    /\ UNCHANGED <<zonal, upw, icos_list, site_j, masked, flx_hsi_gdf_l, ret>>
    /\ UNCHANGED <<nvars, qvars, bvars, hvars, dvars, fvars, uvars, rvars, kvars, tvars>>
    /\ UNCHANGED <<gc_save, gpkg, self_flx_hsi_gdf>>

\* 1698-1711: the rows of img_db joined with geometry and flux variables
GeomRecord(row, g, p) ==
    [name   |-> row.name,
     dtake  |-> row.dtake,
     day    |-> row.day,
     slot   |-> row.slot,
     clouds |-> row.clouds,
     geom   |-> g,
     prod   |-> p.prod,
     par    |-> p.par]

\* a loop over the images that is left after the first image
GeomsDoneEarly == img_i > 1

\* 1666: the loop over datelist has passed every image of the site
GeomsDone == img_i > NImgs

\* 1698-1734: pset.loc[fluxvars] fails on an entry that is a DataFrame
ModelGeomsFinish ==
    /\ pc = "geoms_loop"
    /\ GeomsDone
    /\ IF \E k \in 1..NImgs : ffp_params[k].kind = "frame"
       THEN Raise("KeyError: fluxvars")
       ELSE /\ flx_geom_gdf' =
                  [k \in 1..NImgs |->
                      GeomRecord(img_db[CurRows[k]], geoms[k], ffp_params[k])]
            /\ pc' = "crop_open"
            /\ img_i' = 0
            /\ UNCHANGED <<err, icos_subset, missd, ZM, geoms, ffp_params,
                           geom_px_avgs>>
    /\ UNCHANGED <<zonal, upw, icos_list, img_db, site_j, ffp_calls, masked,
                   flx_hsi_gdf_l, ret>>
    /\ UNCHANGED <<nvars, qvars, bvars, hvars, dvars, fvars, uvars, rvars, kvars, tvars>>
    /\ UNCHANGED <<gc_save, gpkg, self_flx_hsi_gdf>>

(***************************************************************************)
(* _crop_hsi_2_geoms (hsicos.py 1737-1912)                                 *)
(***************************************************************************)
UnsetAvgs == [kind |-> "unset", vals |-> [b \in Bands |-> 0]]

\* 1823: geom_px_avgs[i] = -9999, a scalar that pd.Series(vals,
\* index=sr_band_ix) spreads over all band columns (1905-1906)
ScalarAvgs(v) == [kind |-> "scalar", vals |-> [b \in Bands |-> v]]

ArrayAvgs(f) == [kind |-> "array", vals |-> f]

\* 1794-1806: every image of the frame needs exactly one cropped GeoTIFF
CropOpen ==
    /\ pc = "crop_open"
    /\ \E cnt \in [1..NImgs -> {0, 1, 2}] :
          IF \E k \in 1..NImgs : cnt[k] # 1
          THEN LET k == CHOOSE x \in 1..NImgs :
                            /\ cnt[x] # 1
                            /\ \A y \in 1..(x - 1) : cnt[y] = 1
               IN  Raise(IF cnt[k] = 0
                         THEN "ValueError: cropped image could not be found"
                         ELSE "ValueError: dataTakeID not unique")
          ELSE /\ geom_px_avgs' = [k \in 1..NImgs |-> UnsetAvgs]
               /\ img_i' = 1
               /\ pc' = "crop_loop"
               /\ UNCHANGED <<err, icos_subset, missd, ZM, geoms, ffp_params,
                              flx_geom_gdf>>
    /\ UNCHANGED <<zonal, upw, icos_list, img_db, site_j, ffp_calls, masked,
                   flx_hsi_gdf_l, ret>>
    /\ UNCHANGED <<nvars, qvars, bvars, hvars, dvars, fvars, uvars, rvars, kvars, tvars>>
    /\ UNCHANGED <<gc_save, gpkg, self_flx_hsi_gdf>>

\* the NA test that looks at the flag only
SkipCropFlagOnly(rec, u) == rec.clouds = "icos_na"

\* the NA test that looks at PAR only
SkipCropParOnly(rec, u) == u /\ rec.par = Sentinel

\* 1820-1821: images without flux data, or without PAR in upwelling mode
SkipCrop(rec, u) ==
    \/ rec.clouds = "icos_na"
    \/ (u /\ rec.par = Sentinel)

\* 1842 and 1847: no-data and negative values become NaN
ReplaceNa(v) ==
    LET w == IF v = NaVal THEN NaN ELSE v
    IN  IF w # NaN /\ w < 0 THEN NaN ELSE w

\* 1859: geom_cube * par
TimesPar(v, par) == IF v = NaN THEN NaN ELSE v * par

RECURSIVE SumOver(_, _)
SumOver(f, S) ==
    IF S = {} THEN 0
    ELSE LET x == CHOOSE y \in S : TRUE
         IN  f[x] + SumOver(f, S \ {x})

\* np.nanmean over the pixels of one band
NanMean(px) ==
    LET valid == {q \in DOMAIN px : px[q] # NaN}
    IN  IF valid = {} THEN NaN ELSE SumOver(px, valid) \div Cardinality(valid)

\* 1838-1861 for the cube the mask returned
BandMeans(cube, u, par) ==
    [b \in Bands |->
        NanMean([q \in Pixels |->
                    LET v == ReplaceNa(cube[b][q])
                    IN  IF u THEN TimesPar(v, par) ELSE v])]

\* 1862: np.isnan(geom_px_avgs[i]).all()
AllNaN(m) == \A b \in Bands : m[b] = NaN

\* 1818-1873: one pass of the loop over the images of the site.
\* rasterio.mask.mask(crop=True) raises ValueError('Input shapes do not
\* overlap raster.') for a geometry outside the raster.
CropStep ==
    /\ pc = "crop_loop"
    /\ img_i <= NImgs
    /\ LET rec == flx_geom_gdf[img_i]
       IN  IF SkipCrop(rec, upw)
           THEN /\ geom_px_avgs' = [geom_px_avgs EXCEPT ![img_i] = ScalarAvgs(Sentinel)]
                /\ img_i' = img_i + 1
                /\ UNCHANGED <<flx_geom_gdf, img_db, masked, pc, err>>
                /\ UNCHANGED <<icos_subset, missd, ZM, geoms, ffp_params>>
           ELSE IF rec.geom.kind = "none"
           THEN /\ Raise("TypeError: geometry is None")
                /\ UNCHANGED <<img_db, masked>>
           ELSE \E overlap \in BOOLEAN :
                  IF ~overlap
                  THEN /\ Raise("ValueError: Input shapes do not overlap raster.")
                       /\ masked' = masked \cup {CurRows[img_i]}
                       /\ UNCHANGED img_db
                  ELSE \E cube \in [Bands -> PixelColumns] :
                         LET m == BandMeans(cube, upw, rec.par)
                         IN  /\ masked' = masked \cup {CurRows[img_i]}
                             /\ geom_px_avgs' = [geom_px_avgs EXCEPT ![img_i] = ArrayAvgs(m)]
                             /\ IF AllNaN(m)
                                THEN /\ flx_geom_gdf' = [flx_geom_gdf EXCEPT
                                                           ![img_i].clouds = "hsi_na"]
                                     /\ img_db' = FlagDtake(img_db, rec.dtake, "hsi_na")
                                ELSE UNCHANGED <<flx_geom_gdf, img_db>>
                             /\ img_i' = img_i + 1
                             /\ UNCHANGED <<pc, err>>
                             /\ UNCHANGED <<icos_subset, missd, ZM, geoms,
                                            ffp_params>>
    /\ UNCHANGED <<zonal, upw, icos_list, site_j, ffp_calls, flx_hsi_gdf_l, ret>>
    /\ UNCHANGED <<nvars, qvars, bvars, hvars, dvars, fvars, uvars, rvars, kvars, tvars>>
    /\ UNCHANGED <<gc_save, gpkg, self_flx_hsi_gdf>>

\* 1903-1910: the frame with one column per band
HsiRecord(rec, avgs) ==
    [name   |-> rec.name,
     dtake  |-> rec.dtake,
     day    |-> rec.day,
     slot   |-> rec.slot,
     clouds |-> rec.clouds,
     geom   |-> rec.geom,
     prod   |-> rec.prod,
     par    |-> rec.par,
     bands  |-> avgs.vals]

HsiFrame == [k \in 1..NImgs |-> HsiRecord(flx_geom_gdf[k], geom_px_avgs[k])]

\* a filter that drops the images without flux data only
DropNaIcosOnly(frame) == SelectSeq(frame, LAMBDA r : r.clouds # "icos_na")

\* 2025-2026 and 2039-2040: the rows flagged 'icos_na' or 'hsi_na' are
\* dropped
DropNa(frame) == SelectSeq(frame, LAMBDA r : r.clouds \notin {"icos_na", "hsi_na"})

\* a loop over the crops that is left after the first image
CropsDoneEarly == img_i > 1

\* 1818: the loop over img_paths has passed every image of the site
CropsDone == img_i > NImgs

RECURSIVE Concat(_)
Concat(frames) ==
    IF frames = <<>> THEN <<>> ELSE Head(frames) \o Concat(Tail(frames))

\* 2045-2052: the frame is written to the output file if save is True
Saved(sv) == sv

\* 1903-1912 and 2013-2057: the site's frame is complete. With a single site
\* in the list it is filtered and returned at once; otherwise it joins the
\* list of frames, and after the last site the frames are concatenated,
\* filtered and returned.
FinishSite ==
    /\ pc = "crop_loop"
    /\ CropsDone
    /\ IF Len(icos_list) = 1
       THEN /\ ret' = DropNa(HsiFrame)
            /\ pc' = "done"
            /\ \E sv \in BOOLEAN : gc_save' = sv
            /\ UNCHANGED <<flx_hsi_gdf_l, site_j, gpkg, self_flx_hsi_gdf>>
       ELSE IF site_j < Len(icos_list)
       THEN /\ flx_hsi_gdf_l' = Append(flx_hsi_gdf_l, HsiFrame)
            /\ site_j' = site_j + 1
            /\ pc' = "site"
            /\ UNCHANGED <<ret, gc_save, gpkg, self_flx_hsi_gdf>>
       ELSE /\ ret' = DropNa(Concat(Append(flx_hsi_gdf_l, HsiFrame)))
            /\ flx_hsi_gdf_l' = <<>>
            /\ pc' = "done"
            /\ self_flx_hsi_gdf' = ret'
            /\ \E sv \in BOOLEAN :
                   /\ gc_save' = sv
                   /\ gpkg' = Saved(sv)
            /\ UNCHANGED site_j
    /\ ClearLocals
    /\ UNCHANGED <<zonal, upw, icos_list, img_db, ffp_calls, masked, err>>
    /\ UNCHANGED <<nvars, qvars, bvars, hvars, dvars, fvars, uvars, rvars, kvars, tvars>>

Next ==
    \/ StartSite
    \/ LoadIcosSubset
    \/ ModelGeomsSetup
    \/ ModelGeomsStep
    \/ ModelGeomsFinish
    \/ CropOpen
    \/ CropStep
    \/ FinishSite

Spec == Init /\ [][Next]_vars

Vals == 0..MaxVal

SeqsUpTo(S, n) == UNION {[1..k -> S] : k \in 0..n}

InitNearest ==
    /\ items \in SeqsUpTo(Vals, MaxLen)
    /\ target \in Vals
    /\ result = NoResult
    /\ npc = "init"
    /\ RunIdle
    /\ QcIdle
    /\ OthersIdle

\* min() of an empty iterable raises ValueError
CallNearest ==
    /\ npc = "init"
    /\ IF Len(items) = 0
       THEN /\ npc' = "raised"
            /\ result' = NoResult
       ELSE /\ npc' = "returned"
            /\ result' = nearest(items, target)
    /\ UNCHANGED <<items, target>>
    /\ UNCHANGED <<pvars, qvars, bvars, hvars, dvars, fvars, uvars, rvars, kvars, tvars>>

NextNearest == CallNearest

SpecNearest == InitNearest /\ [][NextNearest]_vars

(***************************************************************************)
(* The crop pipeline for one site of a PRISMA image table: crs_and_cropping *)
(* (hsicos.py 539-692) followed by hsi_qc (720-905), date = None, run      *)
(* twice with the same image table and image directory.                    *)
(***************************************************************************)
\* the argument overwrite of both functions
overwrite == FALSE

\* what a 6 km crop holds around the site: "ok" few no-data pixels, "na" a
\* no-data rate of 0.1 or more within 1 km, "off" no overlap with the 2 km
\* box, "edge" overlap with the 2 km box but not with the 1 km box
CropKinds == {"ok", "na", "off", "edge"}

NoCrop == "none"

\* filestatus = [0]*len(datelist)
Unset == "0"

\* a quicklook is only ever written for a crop that hsi_qc could rate
DiskStates ==
    {[crop |-> NoCrop, qc |-> FALSE]}
    \cup {[crop |-> c, qc |-> FALSE] : c \in CropKinds}
    \cup {[crop |-> c, qc |-> TRUE] : c \in {"ok", "na"}}

NQc == Len(img_paths)

InitQC ==
    /\ NearestIdle
    /\ RunIdle
    /\ OthersIdle
    /\ \E n \in 1..MaxImgs :
          /\ img_paths \in [1..n -> {0, 1, 2}]
          /\ \E d \in [1..n -> DiskStates] :
                /\ crop_files = [k \in 1..n |-> d[k].crop]
                /\ qc_files = [k \in 1..n |-> d[k].qc]
    /\ save = FALSE
    /\ filestatus = <<>>
    /\ returned = <<>>
    /\ qpc = "crop"
    /\ qc_i = 0
    /\ qerr = ""

RaiseQC(e) ==
    /\ qpc' = "error"
    /\ qerr' = e
    /\ filestatus' = <<>>
    /\ qc_i' = 0

\* 597-626: the images the first inner loop loads, or the first image with
\* several archives
CropExists(k) == crop_files[k] # NoCrop

Skipped(k) == (CropExists(k) /\ overwrite = FALSE) \/ img_paths[k] = 0

Loaded == {k \in 1..NQc : ~Skipped(k)}

\* 575-677 for the site: nothing is done when every crop exists; an image
\* with several archives and differing band counts raise; the loaded images
\* are written as crops
CrsAndCropping ==
    /\ qpc = "crop"
    /\ IF (\A k \in 1..NQc : CropExists(k)) /\ overwrite = FALSE
       THEN /\ qpc' = "qc"
            /\ UNCHANGED <<crop_files, qerr, filestatus, qc_i>>
       ELSE IF \E k \in Loaded : img_paths[k] > 1
       THEN /\ RaiseQC("ValueError: DT not unique")
            /\ UNCHANGED crop_files
       ELSE \E same \in BOOLEAN :
              IF Cardinality(Loaded) > 1 /\ ~same
              THEN /\ RaiseQC("ValueError: Wavelengths are not identical")
                   /\ UNCHANGED crop_files
              ELSE /\ \E new \in [Loaded -> CropKinds] :
                         crop_files' = [k \in 1..NQc |->
                                           IF k \in Loaded THEN new[k]
                                           ELSE crop_files[k]]
                   /\ qpc' = "qc"
                   /\ UNCHANGED <<qerr, filestatus, qc_i>>
    /\ UNCHANGED <<img_paths, qc_files, save, returned>>
    /\ UNCHANGED <<nvars, pvars, bvars, hvars, dvars, fvars, uvars, rvars, kvars, tvars>>

\* where the pipeline goes after hsi_qc has returned
AfterReturn(r) == IF Len(r) < 2 THEN "crop" ELSE "done"

\* 752-779: hsi_qc is called; without any crop of the site every image is
\* 'missing'
HsiQcStart ==
    /\ qpc = "qc"
    /\ \E sv \in BOOLEAN :
          /\ save' = sv
          /\ IF \A k \in 1..NQc : ~CropExists(k)
             THEN /\ returned' = Append(returned, [k \in 1..NQc |-> "missing"])
                  /\ qpc' = AfterReturn(returned')
                  /\ UNCHANGED <<filestatus, qc_i>>
             ELSE /\ filestatus' = [k \in 1..NQc |-> Unset]
                  /\ qc_i' = 1
                  /\ qpc' = "qc_loop"
                  /\ UNCHANGED returned
    /\ UNCHANGED <<img_paths, crop_files, qc_files, qerr>>
    /\ UNCHANGED <<nvars, pvars, bvars, hvars, dvars, fvars, uvars, rvars, kvars, tvars>>

\* 791-871: the status of image k ("raise" for the ValueError of the mask
\* with the 1 km box, which is outside the try block)
QcStatus(k, sv) ==
    IF ~CropExists(k) THEN "missing"
    ELSE IF qc_files[k] /\ overwrite = FALSE THEN "good"
    ELSE IF crop_files[k] = "off" THEN "geom_error"
    ELSE IF crop_files[k] = "edge" THEN "raise"
    ELSE IF sv = FALSE THEN Unset
    ELSE IF crop_files[k] = "na" THEN "nodata_warn"
    ELSE "good"

\* 791-900: one pass of the loop over the images; a status set with
\* save = True is followed by fig.savefig(qc_path)
HsiQcStep ==
    /\ qpc = "qc_loop"
    /\ qc_i <= NQc
    /\ LET st == QcStatus(qc_i, save)
       IN  IF st = "raise"
           THEN /\ RaiseQC("ValueError: Input shapes do not overlap raster.")
                /\ UNCHANGED qc_files
           ELSE /\ filestatus' = [filestatus EXCEPT ![qc_i] = st]
                /\ qc_files' = [qc_files EXCEPT
                                  ![qc_i] = @ \/ (st \in {"good", "nodata_warn"})]
                /\ qc_i' = qc_i + 1
                /\ UNCHANGED <<qpc, qerr>>
    /\ UNCHANGED <<img_paths, crop_files, save, returned>>
    /\ UNCHANGED <<nvars, pvars, bvars, hvars, dvars, fvars, uvars, rvars, kvars, tvars>>

\* 901-905: the frame of statuses is returned
HsiQcReturn ==
    /\ qpc = "qc_loop"
    /\ qc_i > NQc
    /\ returned' = Append(returned, filestatus)
    /\ qpc' = AfterReturn(returned')
    /\ filestatus' = <<>>
    /\ qc_i' = 0
    /\ UNCHANGED <<img_paths, crop_files, qc_files, save, qerr>>
    /\ UNCHANGED <<nvars, pvars, bvars, hvars, dvars, fvars, uvars, rvars, kvars, tvars>>

NextQC ==
    \/ CrsAndCropping
    \/ HsiQcStart
    \/ HsiQcStep
    \/ HsiQcReturn

SpecQC == InitQC /\ [][NextQC]_vars

(***************************************************************************)
(* SpecDownload: the remote downloads. icos_cds_get (975-1062) requests    *)
(* reanalysis and E-OBS grids site by site; icos_ppi_get (2060-2260)       *)
(* searches and downloads vegetation-index tiles image by image. A call of *)
(* the client library is one attempt that succeeds or raises.              *)
(***************************************************************************)
\* most downloads of one session
MaxJobs == 3

\* the functions that download
JobKinds == {"cds", "ppi"}

\* what one call request.download / matches.download can do
Outcomes == {"ok", "HTTPError", "ConnectionError"}

InitDownload ==
    /\ jobs \in UNION {[1..k -> JobKinds] : k \in 1..MaxJobs}
    /\ d_i = 1
    /\ dlog = <<>>
    /\ dpc = "call"
    /\ derr = ""
    /\ NearestIdle
    /\ QcTableIdle
    /\ PpiIdle
    /\ PpfdIdle
    /\ ImgDbIdle
    /\ NamesIdle
    /\ RunIdle
    /\ QcIdle
    /\ BandsIdle
    /\ HeightsIdle

Attempt(out) == [job |-> d_i, ev |-> "attempt", out |-> out]

Wait30 == [job |-> d_i, ev |-> "sleep30", out |-> ""]

\* the download under way is complete: the next one starts, if any
JobDone ==
    /\ d_i' = d_i + 1
    /\ dpc' = IF d_i < Len(jobs) THEN "call" ELSE "done"
    /\ derr' = derr

\* an exception leaves the function
Propagate(e) ==
    /\ dpc' = "error"
    /\ derr' = e
    /\ d_i' = d_i

\* 1055-1061: c.retrieve and request.download, outside any try block
icos_cds_get ==
    /\ dpc = "call"
    /\ jobs[d_i] = "cds"
    /\ \E out \in Outcomes :
          /\ dlog' = Append(dlog, Attempt(out))
          /\ IF out = "ok" THEN JobDone ELSE Propagate(out)
    /\ UNCHANGED jobs
    /\ UNCHANGED <<nvars, pvars, qvars, bvars, hvars, fvars, uvars, rvars, kvars, tvars>>

\* 2217-2224: the download is skipped when every matching file is on disk;
\* otherwise matches.download is tried, and only requests' HTTPError is
\* caught
icos_ppi_get_try ==
    /\ dpc = "call"
    /\ jobs[d_i] = "ppi"
    /\ \E matches_exist \in BOOLEAN :
          IF matches_exist
          THEN /\ JobDone
               /\ UNCHANGED dlog
          ELSE \E out \in Outcomes :
                  /\ dlog' = Append(dlog, Attempt(out))
                  /\ IF out = "ok" THEN JobDone
                     ELSE IF out = "HTTPError"
                     THEN /\ dpc' = "caught"
                          /\ UNCHANGED <<d_i, derr>>
                     ELSE Propagate(out)
    /\ UNCHANGED jobs
    /\ UNCHANGED <<nvars, pvars, qvars, bvars, hvars, fvars, uvars, rvars, kvars, tvars>>

\* 2225-2228: the handler logs the error and sleeps for 30 seconds
icos_ppi_get_sleep ==
    /\ dpc = "caught"
    /\ dlog' = Append(dlog, Wait30)
    /\ dpc' = "retry"
    /\ UNCHANGED <<jobs, d_i, derr>>
    /\ UNCHANGED <<nvars, pvars, qvars, bvars, hvars, fvars, uvars, rvars, kvars, tvars>>

\* 2229: the second matches.download, inside the handler: nothing catches
\* what it raises
icos_ppi_get_retry ==
    /\ dpc = "retry"
    /\ \E out \in Outcomes :
          /\ dlog' = Append(dlog, Attempt(out))
          /\ IF out = "ok" THEN JobDone ELSE Propagate(out)
    /\ UNCHANGED jobs
    /\ UNCHANGED <<nvars, pvars, qvars, bvars, hvars, fvars, uvars, rvars, kvars, tvars>>

NextDownload ==
    \/ icos_cds_get
    \/ icos_ppi_get_try
    \/ icos_ppi_get_sleep
    \/ icos_ppi_get_retry

SpecDownload == InitDownload /\ [][NextDownload]_vars

(***************************************************************************)
(* SpecBands: the band lists of the images of one site. crs_and_cropping   *)
(* (hsicos.py 539-692, overwrite = False) is called any number of times,   *)
(* each time with the raw scenes that are on disk at that moment; then     *)
(* _crop_hsi_2_geoms (1737-1912) reads the crops, selects the spectral     *)
(* window and builds the band columns. Wavelengths are in tenths of a      *)
(* nanometre.                                                              *)
(***************************************************************************)
\* most images of the site
MaxScenes == 2

\* 1770: nm_min = 400
nm_min == 4000

\* 1771-1776: nm_max by spectral range code
NmMax(s) ==
    CASE s = "vis" -> 7000
      [] s = "vnir" -> 10000
      [] s = "vswir" -> 25000

\* the wavelength lists a decoder returns (prisma_crop / desis_crop)
WlLists == { <<4002, 5500, 6998, 7103>>,
             <<4002, 5500, 6998, 7103, 9990>>,
             <<3900, 4002, 5500, 6998>>,
             <<3999, 4001, 5500>> }

\* an image without a crop on disk
NoWls == <<>>

\* 252-270: _fnv on a list is min(range(len(values)), key=distance): the
\* first index, counted from 0, whose value is nearest to the target
_fnv(values, tgt) ==
    CHOOSE i \in 0..(Len(values) - 1) :
        /\ \A j \in 0..(Len(values) - 1) :
              Abs(values[i + 1] - tgt) <= Abs(values[j + 1] - tgt)
        /\ \A j \in 0..(i - 1) :
              Abs(values[j + 1] - tgt) > Abs(values[i + 1] - tgt)

\* a window that ends before the band nearest to nm_max
WlMaxExclusive(wl, s) == _fnv(wl, NmMax(s))

\* 1810: wl_max = _fnv(wlss[0], nm_max) + 1
WlMax(wl, s) == _fnv(wl, NmMax(s)) + 1

\* the indices of the python slice values[lo:hi], counted from 0
SliceIx(n, lo, hi) ==
    LET top == IF hi < n THEN hi ELSE n
    IN  IF lo >= top THEN <<>> ELSE [k \in 1..(top - lo) |-> lo + k - 1]

UnsetBands == [kind |-> "unset", ix |-> <<>>]

\* 1821-1823: geom_px_avgs[i] = -9999 for a skipped image
ScalarBands == [kind |-> "scalar", ix |-> <<>>]

ArrayBands(ix) == [kind |-> "array", ix |-> ix]

NScenes == Len(scenes)

InitBands ==
    /\ sr \in {"vis", "vnir", "vswir"}
    /\ scenes \in UNION {[1..n -> WlLists] : n \in 1..MaxScenes}
    /\ crop_wls = [i \in 1..Len(scenes) |-> NoWls]
    /\ skipped \in [1..Len(scenes) -> BOOLEAN]
    /\ bpc = "crop"
    /\ b_i = 0
    /\ wl_min = 0
    /\ wl_max = 0
    /\ nbands = 0
    /\ px_bands = <<>>
    /\ band_cols = <<>>
    /\ berr = ""
    /\ NearestIdle
    /\ QcTableIdle
    /\ PpiIdle
    /\ PpfdIdle
    /\ ImgDbIdle
    /\ NamesIdle
    /\ RunIdle
    /\ QcIdle
    /\ HeightsIdle
    /\ DownloadIdle

RaiseBands(e) ==
    /\ bpc' = "error"
    /\ berr' = e

\* 572-644 and 670-683: one call of crs_and_cropping. The raw scenes found
\* on disk that have no crop yet are loaded; their band counts are compared
\* with each other; each is written to its crop with its wavelengths as band
\* descriptions.
BandsCrsAndCropping ==
    /\ bpc = "crop"
    /\ \E found \in SUBSET (1..NScenes) :
          LET loaded == {i \in found : crop_wls[i] = NoWls}
              blength == {Len(scenes[i]) : i \in loaded}
          IN  IF Cardinality(blength) > 1
              THEN /\ RaiseBands("ValueError: Wavelengths are not identical")
                   /\ UNCHANGED crop_wls
              ELSE /\ crop_wls' = [i \in 1..NScenes |->
                                      IF i \in loaded THEN scenes[i]
                                      ELSE crop_wls[i]]
                   /\ UNCHANGED <<bpc, berr>>
    /\ UNCHANGED <<sr, scenes, skipped, b_i, wl_min, wl_max, nbands, px_bands,
                   band_cols>>
    /\ UNCHANGED <<nvars, pvars, qvars, hvars, dvars, fvars, uvars, rvars, kvars, tvars>>

\* 1794-1811: every crop of the site is read; the window indices and the
\* number of band columns are taken from the wavelengths of the first image
BandsOpen ==
    /\ bpc = "crop"
    /\ IF \E i \in 1..NScenes : crop_wls[i] = NoWls
       THEN /\ RaiseBands("ValueError: cropped image could not be found")
            /\ UNCHANGED <<b_i, wl_min, wl_max, nbands, px_bands>>
       ELSE /\ wl_min' = _fnv(crop_wls[1], nm_min)
            /\ wl_max' = WlMax(crop_wls[1], sr)
            /\ nbands' = Len(SliceIx(Len(crop_wls[1]), wl_min', wl_max'))
            /\ px_bands' = [i \in 1..NScenes |-> UnsetBands]
            /\ b_i' = 1
            /\ bpc' = "agg"
            /\ UNCHANGED berr
    /\ UNCHANGED <<sr, scenes, crop_wls, skipped, band_cols>>
    /\ UNCHANGED <<nvars, pvars, qvars, hvars, dvars, fvars, uvars, rvars, kvars, tvars>>

\* 1818-1860: a skipped image gets the scalar -9999; the cube of any other
\* image is cut to [wl_min, wl_max) along the band axis and averaged
BandsStep ==
    /\ bpc = "agg"
    /\ b_i <= NScenes
    /\ px_bands' = [px_bands EXCEPT ![b_i] =
                       IF skipped[b_i] THEN ScalarBands
                       ELSE ArrayBands(SliceIx(Len(crop_wls[b_i]), wl_min, wl_max))]
    /\ b_i' = b_i + 1
    /\ UNCHANGED <<sr, scenes, crop_wls, skipped, bpc, wl_min, wl_max, nbands,
                   band_cols, berr>>
    /\ UNCHANGED <<nvars, pvars, qvars, hvars, dvars, fvars, uvars, rvars, kvars, tvars>>

\* 1904-1906: pd.Series(vals, index=sr_band_ix) spreads a scalar over the
\* nbands columns and raises when an array has another length
BandsFrame ==
    /\ bpc = "agg"
    /\ b_i > NScenes
    /\ IF \E i \in 1..NScenes :
             px_bands[i].kind = "array" /\ Len(px_bands[i].ix) # nbands
       THEN /\ RaiseBands("ValueError: Length of values does not match length of index")
            /\ UNCHANGED band_cols
       ELSE /\ band_cols' = px_bands
            /\ bpc' = "returned"
            /\ UNCHANGED berr
    /\ UNCHANGED <<sr, scenes, crop_wls, skipped, b_i, wl_min, wl_max, nbands,
                   px_bands>>
    /\ UNCHANGED <<nvars, pvars, qvars, hvars, dvars, fvars, uvars, rvars, kvars, tvars>>

NextBands ==
    \/ BandsCrsAndCropping
    \/ BandsOpen
    \/ BandsStep
    \/ BandsFrame

SpecBands == InitBands /\ [][NextBands]_vars

(***************************************************************************)
(* SpecHeights: the heights _load_icos_subset (hsicos.py 1509-1588) looks  *)
(* up for the images of one site. The canopy-height records are those the  *)
(* statistic filters selected, the installation records those of the eddy  *)
(* covariance sensor, both in the order of their GROUP_ID; installation    *)
(* dates are distinct. Dates are day numbers, heights are in decimetres.   *)
(* The images of datelist are drawn one by one as the loop reaches them.   *)
(***************************************************************************)
\* dates are drawn from 1..MaxDate
MaxDate == 3

\* most canopy-height records, and most installation records, of a site
MaxRecs == 2

Dates == 1..MaxDate

\* HEIGHTC of the k-th canopy-height record
CanopyHeightOf(k) == 2 * k

\* INSTOM_HEIGHT of the k-th installation record
SensorHeightOf(k) == 2 * k + 1

\* classes of the model: wetland, grassland, evergreen needleleaf forest,
\* and a class outside the lists of 1512-1535
HeightsClasses == {"WET", "GRA", "ENF", "URB"}

\* no class gets the default height
DefaultClassesNone == {}

\* 1535: the class that gets the default height
DefaultClasses == {"WET"}

\* an image that has not been drawn
NoImage == [date |-> 0, miss |-> TRUE]

InitHeights ==
    /\ igbp \in HeightsClasses
    /\ D_hdates \in UNION {[1..n -> Dates] : n \in 0..MaxRecs}
    /\ Z_hdates0 \in {z \in UNION {[1..n -> Dates] : n \in 1..MaxRecs} :
                        \A a, b \in 1..Len(z) : a # b => z[a] # z[b]}
    /\ idate = NoImage
    /\ D_avg = FALSE
    /\ D_default = FALSE
    /\ D_img = 0
    /\ Z_img = 0
    /\ ZM_i = Sentinel
    /\ hpc = "anc"
    /\ herr = ""
    /\ NearestIdle
    /\ QcTableIdle
    /\ PpiIdle
    /\ PpfdIdle
    /\ ImgDbIdle
    /\ NamesIdle
    /\ RunIdle
    /\ QcIdle
    /\ BandsIdle
    /\ DownloadIdle

RaiseHeights(e) ==
    /\ hpc' = "error"
    /\ herr' = e

RECURSIVE SumHeights(_)
SumHeights(n) == IF n = 0 THEN 0 ELSE CanopyHeightOf(n) + SumHeights(n - 1)

\* 1548: the mean of HEIGHTC over the selected records (the heights of the
\* model make the mean a whole number)
MeanHeight(n) == SumHeights(n) \div n

\* 1512-1548: the canopy-height source by class. Forest classes read the
\* tree-height group, low vegetation goes through _icos_height_aux, which
\* raises if no record is usable and sets D_avg if only per-species means
\* exist; wetlands get the default; any other class leaves D_hdates and D
\* unbound.
HeightsSetup ==
    /\ hpc = "anc"
    /\ IF igbp \in DefaultClasses
       THEN /\ D_default' = TRUE
            /\ D_img' = DDefault
            /\ hpc' = "loop"
            /\ UNCHANGED <<D_avg, herr>>
       ELSE IF igbp = "GRA"
       THEN IF Len(D_hdates) = 0
            THEN /\ RaiseHeights("KeyError: No usable mean or P75 values for D")
                 /\ UNCHANGED <<D_avg, D_default, D_img>>
            ELSE \E spp_means \in BOOLEAN :
                    /\ D_avg' = spp_means
                    /\ D_img' = IF spp_means THEN MeanHeight(Len(D_hdates))
                                ELSE D_img
                    /\ hpc' = "loop"
                    /\ UNCHANGED <<D_default, herr>>
       ELSE /\ hpc' = "loop"
            /\ UNCHANGED <<D_avg, D_default, D_img, herr>>
    /\ UNCHANGED <<igbp, D_hdates, Z_hdates0, idate, Z_img, ZM_i>>
    /\ UNCHANGED <<nvars, pvars, qvars, bvars, dvars, fvars, uvars, rvars, kvars, tvars>>

\* the first record of that date
D_gid_first(recs, date) ==
    CHOOSE k \in 1..Len(recs) :
        /\ recs[k] = date
        /\ \A m \in 1..(k - 1) : recs[m] # date

\* 1577: D_hdates[D_hdates == date].index[-1], the last record of that date
D_gid(recs, date) ==
    CHOOSE k \in 1..Len(recs) :
        /\ recs[k] = date
        /\ \A m \in (k + 1)..Len(recs) : recs[m] # date

\* 1568: Z_hdates, the installation records (GROUP_ID by position) sorted by
\* date
Z_hdates ==
    CHOOSE z \in [1..Len(Z_hdates0) -> 1..Len(Z_hdates0)] :
        /\ \A a, b \in 1..Len(z) : a # b => z[a] # z[b]
        /\ \A a, b \in 1..Len(z) : a < b => Z_hdates0[z[a]] < Z_hdates0[z[b]]

\* truncate that drops the records of the image date as well
TruncateBefore(z, after) ==
    SelectSeq(z, LAMBDA g : Z_hdates0[g] < after)

\* 1580: Z_hdates.truncate(after=idate) keeps the records dated up to and
\* including idate
Truncate(z, after) ==
    SelectSeq(z, LAMBDA g : Z_hdates0[g] <= after)

\* 1579-1583: the last record left by truncate; [-1] of an empty Series
\* raises IndexError and the first record of Z_hdates is taken
Z_gid(date) ==
    LET t == Truncate(Z_hdates, date)
    IN  IF Len(t) > 0 THEN t[Len(t)] ELSE Z_hdates[1]

\* 1572-1588: one pass of the loop over datelist
HeightsStep ==
    /\ hpc = "loop"
    /\ \E d \in Dates, miss \in BOOLEAN :
          /\ idate' = [date |-> d, miss |-> miss]
          /\ IF miss
             THEN /\ ZM_i' = Sentinel
                  /\ UNCHANGED <<D_img, Z_img, hpc, herr>>
             ELSE IF ~(D_avg \/ D_default) /\ igbp \notin {"GRA", "ENF"}
             THEN /\ RaiseHeights("UnboundLocalError: D_hdates")
                  /\ UNCHANGED <<D_img, Z_img, ZM_i>>
             ELSE IF ~(D_avg \/ D_default) /\ Len(D_hdates) = 0
             THEN /\ RaiseHeights("ValueError: min() arg is an empty sequence")
                  /\ UNCHANGED <<D_img, Z_img, ZM_i>>
             ELSE /\ D_img' = IF D_avg \/ D_default THEN D_img
                              ELSE CanopyHeightOf(
                                       D_gid(D_hdates, nearest(D_hdates, d)))
                  /\ Z_img' = SensorHeightOf(Z_gid(d))
                  /\ IF HeightError(Z_img', D_img')
                     THEN /\ RaiseHeights("ValueError: Canopy height D > sensor height Z")
                          /\ UNCHANGED ZM_i
                     ELSE /\ ZM_i' = Z_img' - D_img'
                          /\ UNCHANGED <<hpc, herr>>
    /\ UNCHANGED <<igbp, D_hdates, Z_hdates0, D_avg, D_default>>
    /\ UNCHANGED <<nvars, pvars, qvars, bvars, dvars, fvars, uvars, rvars, kvars, tvars>>

NextHeights ==
    \/ HeightsSetup
    \/ HeightsStep

SpecHeights == InitHeights /\ [][NextHeights]_vars

(***************************************************************************)
(* SpecNames: the name of the GeoPackage that hsi_geom_crop writes         *)
(* (hsicos.py 1947-1957, 2045-2052) and the name load_cropped_db asks for  *)
(* (2078-2093) on the same instance. Names are built by string             *)
(* concatenation, as str.format does.                                      *)
(***************************************************************************)
\* 491-495: the sensor of the instance
Sensors == {"DESIS", "PRISMA"}

\* the values the docstrings give for sr and aggr
SrCodes == {"vis", "vnir", "vswir"}

AggrCodes == {"na", "mean", "sum"}

NameArgs == [sr : SrCodes, zonal : BOOLEAN, upw : BOOLEAN, aggr : AggrCodes]

\* load_cropped_db without the replacement of sr
SrAsGiven(a) == a.sr

\* 2078-2082: load_cropped_db sets sr to 'vis' when upw is True
SrLoad(a) == IF a.upw /\ a.sr # "vis" THEN "vis" ELSE a.sr

\* 1947-1951: hsi_geom_crop sets sr to 'vis' when upw is True
SrCrop(a) == IF a.upw /\ a.sr # "vis" THEN "vis" ELSE a.sr

\* 1954, 2085: t = 'upw' if upw is True else 'ref'
RadOf(a) == IF a.upw THEN "upw" ELSE "ref"

\* 1955, 2086: a = 'zst' if zonal is True else 'ffp'
MaskOf(a) == IF a.zonal THEN "zst" ELSE "ffp"

\* 1957: self.ptype of hsi_geom_crop
PtypeCrop(a) ==
    [rad |-> RadOf(a), mask |-> MaskOf(a), sr |-> SrCrop(a), aggr |-> a.aggr]

\* 2087: self.ptype of load_cropped_db
PtypeLoad(a) ==
    [rad |-> RadOf(a), mask |-> MaskOf(a), sr |-> SrLoad(a), aggr |-> a.aggr]

\* 2046-2048, 2089: 'all_sites_{}_{}_{}_{}_{}.gpkg'.format(sensor, sr, mask,
\* rad, aggr)
FileName(sensor, pt) ==
    "all_sites_" \o sensor \o "_" \o pt.sr \o "_" \o pt.mask \o "_" \o pt.rad
        \o "_" \o pt.aggr \o ".gpkg"

InitNames ==
    /\ fn_sensor \in Sensors
    /\ fn_args = <<>>
    /\ fn_written = <<>>
    /\ fn_read = <<>>
    /\ fpc = "start"
    /\ NearestIdle
    /\ QcTableIdle
    /\ PpiIdle
    /\ PpfdIdle
    /\ ImgDbIdle
    /\ RunIdle
    /\ QcIdle
    /\ BandsIdle
    /\ HeightsIdle
    /\ DownloadIdle

\* 1947-1957 and 2045-2052: a call of hsi_geom_crop with save=True for two
\* or more sites writes the file named after self.ptype
NamesCrop ==
    /\ fpc = "start"
    /\ \E a \in NameArgs :
          /\ fn_args' = a
          /\ fn_written' = [name |-> FileName(fn_sensor, PtypeCrop(a)),
                            ptype |-> PtypeCrop(a)]
    /\ fpc' = "written"
    /\ UNCHANGED <<fn_sensor, fn_read>>
    /\ UNCHANGED <<nvars, pvars, qvars, bvars, hvars, dvars, uvars, rvars, kvars, tvars>>

\* 2078-2093: a call of load_cropped_db with fdir=None asks for the file
\* named after its own arguments
NamesLoad ==
    /\ fpc = "written"
    /\ \E a \in NameArgs :
          fn_read' = [args |-> a,
                      name |-> FileName(fn_sensor, PtypeLoad(a)),
                      ptype |-> PtypeLoad(a)]
    /\ fpc' = "loaded"
    /\ UNCHANGED <<fn_sensor, fn_args, fn_written>>
    /\ UNCHANGED <<nvars, pvars, qvars, bvars, hvars, dvars, uvars, rvars, kvars, tvars>>

NextNames ==
    \/ NamesCrop
    \/ NamesLoad

SpecNames == InitNames /\ [][NextNames]_vars

(***************************************************************************)
(* SpecImgDb: update_img_db (hsicos.py 1215-1288). The table read from     *)
(* img_csv and the table of the instance hold one row per image: no two    *)
(* rows of a table share site name and dataTakeID.                         *)
(***************************************************************************)
\* most rows of a table
MaxRows == 2

\* site name and dataTakeID of the images; one scene covers two sites
ImgKeys == { [name |-> "DE-Hai", dtake |-> 1],
             [name |-> "DE-Hai", dtake |-> 2],
             [name |-> "DE-Tha", dtake |-> 1] }

\* 1227-1229: the codes of column 'usable'
UsableCodes == 0..3

\* the values of column 'ppi_file' of the instance table (532-535)
PpiNames == {"", "ppi.tif"}

\* the value a left merge gives a row without partner
NaNFile == "nan"

\* the sequences over S of at most n rows with pairwise different keys
KeyedTables(S, n) ==
    {t \in UNION {[1..k -> S] : k \in 0..n} :
        \A a, b \in 1..Len(t) :
           (a # b) => <<t[a].name, t[a].dtake>> # <<t[b].name, t[b].dtake>>}

InitImgDb ==
    /\ old_img_db \in KeyedTables(
           {[name |-> k.name, dtake |-> k.dtake, usable |-> u] :
               k \in ImgKeys, u \in UsableCodes}, MaxRows)
    /\ u_img_db \in KeyedTables(
           {[name |-> k.name, dtake |-> k.dtake, ppi_file |-> f] :
               k \in ImgKeys, f \in PpiNames}, MaxRows)
    /\ u_ret = <<>>
    /\ upc = "call"
    /\ uerr = ""
    /\ NearestIdle
    /\ QcTableIdle
    /\ PpiIdle
    /\ PpfdIdle
    /\ RunIdle
    /\ QcIdle
    /\ BandsIdle
    /\ HeightsIdle
    /\ DownloadIdle
    /\ NamesIdle

\* a filter that lets code 0 pass
BetweenZeroAndTwo(r) == r.usable \in 0..2

\* 1263: old_img_db.usable.between(1,2)
Between(r) == r.usable \in 1..2

\* 1278-1280: pd.merge(left, right, how='left', on=['name', 'dataTakeID']):
\* every left row, in order, once per right row of the same key, and once
\* with a missing value if there is none
RECURSIVE Merge(_, _)
Merge(left, right) ==
    IF left = <<>> THEN <<>>
    ELSE LET l == Head(left)
             partners == SelectSeq(right, LAMBDA r :
                             r.name = l.name /\ r.dtake = l.dtake)
             joined == IF partners = <<>>
                       THEN << [name |-> l.name, dtake |-> l.dtake,
                                usable |-> l.usable, ppi_file |-> NaNFile] >>
                       ELSE [k \in 1..Len(partners) |->
                               [name |-> l.name, dtake |-> l.dtake,
                                usable |-> l.usable,
                                ppi_file |-> partners[k].ppi_file]]
         IN  joined \o Merge(Tail(left), right)

\* 1285: self.img_db.name.unique().tolist(), in order of first appearance
RECURSIVE UniqueNames(_)
UniqueNames(t) ==
    IF t = <<>> THEN <<>>
    ELSE LET front == UniqueNames(SubSeq(t, 1, Len(t) - 1))
             n == t[Len(t)].name
         IN  IF \E k \in 1..Len(front) : front[k] = n THEN front
             ELSE Append(front, n)

\* 1244-1286: the table is read, filtered by usability, given the ERA5
\* boundary layer heights if era_blh is passed (which can raise), and merged
\* with the PPI file names the instance table holds
update_img_db ==
    /\ upc = "call"
    /\ LET kept == SelectSeq(old_img_db, Between)
       IN  \E era \in {"none", "ok", "raises"} :
              IF era = "raises"
              THEN /\ u_img_db' = [k \in 1..Len(kept) |->
                                     [name |-> kept[k].name,
                                      dtake |-> kept[k].dtake,
                                      usable |-> kept[k].usable,
                                      ppi_file |-> NaNFile]]
                   /\ upc' = "error"
                   /\ uerr' = "ValueError"
                   /\ UNCHANGED u_ret
              ELSE /\ u_img_db' = Merge(kept, u_img_db)
                   /\ u_ret' = UniqueNames(u_img_db')
                   /\ upc' = "returned"
                   /\ UNCHANGED uerr
    /\ UNCHANGED old_img_db
    /\ UNCHANGED <<nvars, pvars, qvars, bvars, hvars, dvars, fvars, rvars, kvars, tvars>>

NextImgDb == update_img_db

SpecImgDb == InitImgDb /\ [][NextImgDb]_vars

(***************************************************************************)
(* SpecPpfd: _ppfd_check (hsicos.py 1290-1330) and the use hsi_geom_crop   *)
(* makes of its result (1963-1967).                                        *)
(***************************************************************************)
\* most sites in the list
MaxSites == 3

\* the sites of the list, in the order of the argument
PpfdSites == <<"DE-Hai", "DE-Tha", "FI-Hyy", "IT-Tor">>

\* tvar = ['PPFD_IN', 'SW_IN_F']
tvar == <<"PPFD_IN", "SW_IN_F">>

\* what a site's flux file can hold of the two columns; NoFile: no FLUXNET
\* csv of the site is found
NoFile == {"no_file"}

FluxColumns == (SUBSET {"PPFD_IN", "SW_IN_F"}) \cup {NoFile}

InitPpfd ==
    /\ \E n \in 1..MaxSites :
          /\ site_list = SubSeq(PpfdSites, 1, n)
          /\ flux_cols \in [1..n -> FluxColumns]
    /\ r_i = 1
    /\ no_ppfd = <<>>
    /\ no_rad = <<>>
    /\ r_icos_list = <<>>
    /\ rpc = "check"
    /\ rerr = ""
    /\ NearestIdle
    /\ QcTableIdle
    /\ PpiIdle
    /\ RunIdle
    /\ QcIdle
    /\ BandsIdle
    /\ HeightsIdle
    /\ DownloadIdle
    /\ NamesIdle
    /\ ImgDbIdle

\* 1318-1322: the if / elif on the columns of the file. The first test asks
\* for PPFD_IN alone; the second, whether both names are columns, is reached
\* only when PPFD_IN is one.
Report(cols) ==
    IF tvar[1] \notin cols THEN "no_ppfd"
    ELSE IF ~(\A v \in {tvar[1], tvar[2]} : v \in cols) THEN "no_rad"
    ELSE "none"

\* 1301-1322: one pass of the loop over site_list
PpfdCheckStep ==
    /\ rpc = "check"
    /\ r_i <= Len(site_list)
    /\ IF flux_cols[r_i] = NoFile
       THEN /\ rpc' = "error"
            /\ rerr' = "RuntimeError: No FLUXNET csv found"
            /\ UNCHANGED <<r_i, no_ppfd, no_rad>>
       ELSE /\ no_ppfd' = IF Report(flux_cols[r_i]) = "no_ppfd"
                          THEN Append(no_ppfd, site_list[r_i]) ELSE no_ppfd
            /\ no_rad' = IF Report(flux_cols[r_i]) = "no_rad"
                         THEN Append(no_rad, site_list[r_i]) ELSE no_rad
            /\ r_i' = r_i + 1
            /\ UNCHANGED <<rpc, rerr>>
    /\ UNCHANGED <<site_list, flux_cols, r_icos_list>>
    /\ UNCHANGED <<nvars, pvars, qvars, bvars, hvars, dvars, fvars, uvars, kvars, tvars>>

\* 1323-1330 and 1963-1967: the lists are returned and hsi_geom_crop drops
\* the sites of no_rad from icos_list
PpfdCheckReturn ==
    /\ rpc = "check"
    /\ r_i > Len(site_list)
    /\ r_icos_list' = SelectSeq(site_list, LAMBDA x :
                          ~ \E k \in 1..Len(no_rad) : no_rad[k] = x)
    /\ rpc' = "checked"
    /\ UNCHANGED <<site_list, flux_cols, r_i, no_ppfd, no_rad, rerr>>
    /\ UNCHANGED <<nvars, pvars, qvars, bvars, hvars, dvars, fvars, uvars, kvars, tvars>>

NextPpfd ==
    \/ PpfdCheckStep
    \/ PpfdCheckReturn

SpecPpfd == InitPpfd /\ [][NextPpfd]_vars

(***************************************************************************)
(* icos_ppi_get (hsicos.py 2102-2343): the PPI file of every image of one  *)
(* site of icos_list                                                       *)
(***************************************************************************)
MaxTs == 2

\* 2187: for sat in ['S2B', 'S2A']
PpiSats == <<"S2B", "S2A">>

\* acquisition dates of the search results, in days from the image date
DayOffsets == {-1, 1, 2}

\* 2234: while na_rate > .7, in percent
NaLimit == 70

\* NA rates of a file, in percent: at the limit and above it
NaRates == {NaLimit, NaLimit + 1}

\* 2189: na_rate = 1
NaStart == 100

\* 2286: na_rate = -9999
AllNa == -9999

\* the local na_rate before its first assignment at 2189
Unbound == -1

\* c.search(query).results: one file per acquisition date, with its NA rate
MatchSets == UNION {[S -> NaRates] : S \in SUBSET DayOffsets}

\* ppi_files[i] = ''
NoPpi == [sat |-> "", off |-> 0]

\* 2172-2179: ppi_exp.name, a cropped PPI file that is already in odir
ExistingPpi == [sat |-> "exp", off |-> 0]

\* matches_filenames[...]: the file of satellite s acquired at offset o
FileOf(s, o) == [sat |-> s, off |-> o]

\* 2232: abs(matches_dates - ts).sort_values().drop_duplicates()
matches_datediffs(m) == {Abs(o) : o \in DOMAIN m}

\* 2236: matches_datediffs.index[ct], as a date distance
DiffAt(m, c) ==
    CHOOSE d \in matches_datediffs(m) :
        Cardinality({e \in matches_datediffs(m) : e < d}) = c

\* 2303 and 2305: the entries that are not 0, not ''
RECURSIVE Keep(_, _)
Keep(s, drop) ==
    IF s = <<>> THEN <<>>
    ELSE (IF Head(s) = drop THEN <<>> ELSE <<Head(s)>>) \o Keep(Tail(s), drop)

InitPpi ==
    /\ \E n \in 0..MaxTs :
          /\ datetimes = [k \in 1..n |-> k]
          /\ ppi_files = [k \in 1..n |-> NoPpi]
          /\ ppi_col = [k \in 1..n |-> NoPpi]
    /\ ts_i = 0
    /\ sat = ""
    /\ matches = <<>>
    /\ ct = 0
    /\ na_rate \in {Unbound, NaStart}
    /\ tested = <<>>
    /\ kpc = "site"
    /\ kerr = ""
    /\ NearestIdle
    /\ QcTableIdle
    /\ RunIdle
    /\ QcIdle
    /\ BandsIdle
    /\ HeightsIdle
    /\ DownloadIdle
    /\ NamesIdle
    /\ ImgDbIdle
    /\ PpfdIdle

\* 2138-2153: a site whose images all have a PPI file is skipped
PpiSite ==
    /\ kpc = "site"
    /\ IF Len(datetimes) = 0
       THEN kpc' = "done" /\ ts_i' = ts_i
       ELSE kpc' = "ts" /\ ts_i' = 1
    /\ UNCHANGED <<datetimes, ppi_files, ppi_col, sat, matches, ct, na_rate,
                   tested, kerr>>
    /\ UNCHANGED <<nvars, pvars, qvars, bvars, hvars, dvars, fvars, uvars, rvars, tvars>>

\* 2170-2186: the next timestamp; an image whose cropped PPI file exists is
\* entered in flx_hsi_gdf and passed over
PpiTimestamp ==
    /\ kpc = "ts"
    /\ ts_i <= Len(datetimes)
    /\ \E exists \in BOOLEAN :
          IF exists
          THEN /\ ppi_files' = [ppi_files EXCEPT ![ts_i] = NoPpi]
               /\ datetimes' = [datetimes EXCEPT ![ts_i] = 0]
               /\ ppi_col' = [ppi_col EXCEPT ![ts_i] = ExistingPpi]
               /\ ts_i' = ts_i + 1
               /\ UNCHANGED <<sat, kpc>>
          ELSE /\ sat' = PpiSats[1]
               /\ kpc' = "search"
               /\ UNCHANGED <<ppi_files, datetimes, ppi_col, ts_i>>
    /\ matches' = <<>>
    /\ tested' = <<>>
    /\ UNCHANGED <<ct, na_rate, kerr>>
    /\ UNCHANGED <<nvars, pvars, qvars, bvars, hvars, dvars, fvars, uvars, rvars, tvars>>

\* 2187-2229: the head of a pass of the satellite loop: search, and download
\* of all results
PpiSearch ==
    /\ kpc = "search"
    /\ na_rate' = NaStart
    /\ ct' = 0
    /\ \E m \in MatchSets, dl \in {"ok", "fails"} :
          /\ matches' = (matches @@ (sat :> m))
          /\ IF DOMAIN m = {} /\ sat = "S2B"
             THEN \* 2206-2210: continue
                  /\ sat' = PpiSats[2]
                  /\ UNCHANGED <<datetimes, ts_i, kpc, kerr>>
             ELSE IF DOMAIN m = {} /\ sat = "S2A"
             THEN \* 2211-2215: the no-match flag, and break
                  /\ datetimes' = [datetimes EXCEPT ![ts_i] = 0]
                  /\ ts_i' = ts_i + 1
                  /\ kpc' = "ts"
                  /\ UNCHANGED <<sat, kerr>>
             ELSE IF dl = "fails"
             THEN /\ kerr' = "HTTPError"
                  /\ kpc' = "raised"
                  /\ UNCHANGED <<datetimes, ts_i, sat>>
             ELSE /\ kpc' = "while"
                  /\ UNCHANGED <<datetimes, ts_i, sat, kerr>>
    /\ UNCHANGED <<ppi_files, ppi_col, tested>>
    /\ UNCHANGED <<nvars, pvars, qvars, bvars, hvars, dvars, fvars, uvars, rvars, tvars>>

\* 2234-2292: one pass of the while loop. Which of two files at the same
\* date distance the sort puts first is left open.
PpiWhile ==
    /\ kpc = "while"
    /\ na_rate > NaLimit
    /\ LET m == matches[sat]
           n == Cardinality(matches_datediffs(m))
       IN  IF ct >= n
           THEN \* 2236: matches_datediffs.index[ct]
                /\ kerr' = "IndexError"
                /\ kpc' = "raised"
                /\ UNCHANGED <<ppi_files, datetimes, ct, na_rate, tested>>
           ELSE \E o \in DOMAIN m :
                  /\ Abs(o) = DiffAt(m, ct)
                  /\ tested' = Append(tested, [sat |-> sat, off |-> o, na |-> m[o]])
                  /\ ct' = ct + 1
                  /\ IF ct + 1 = n /\ sat = "S2B"
                     THEN \* 2283-2286
                          /\ na_rate' = AllNa
                          /\ ppi_files' = [ppi_files EXCEPT ![ts_i] = FileOf(sat, o)]
                          /\ UNCHANGED datetimes
                     ELSE IF ct + 1 = n /\ sat = "S2A"
                     THEN \* 2287-2292: 'na_rate != -9999' assigns nothing
                          /\ na_rate' = m[o]
                          /\ ppi_files' = [ppi_files EXCEPT ![ts_i] = NoPpi]
                          /\ datetimes' = [datetimes EXCEPT ![ts_i] = 0]
                     ELSE /\ na_rate' = m[o]
                          /\ ppi_files' = [ppi_files EXCEPT ![ts_i] = FileOf(sat, o)]
                          /\ UNCHANGED datetimes
                  /\ UNCHANGED <<kpc, kerr>>
    /\ UNCHANGED <<ppi_col, ts_i, sat, matches>>
    /\ UNCHANGED <<nvars, pvars, qvars, bvars, hvars, dvars, fvars, uvars, rvars, tvars>>

\* 2293-2295: after the while loop: break, or the next satellite
PpiAfterWhile ==
    /\ kpc = "while"
    /\ na_rate <= NaLimit
    /\ IF na_rate # AllNa \/ sat = "S2A"
       THEN /\ ts_i' = ts_i + 1
            /\ kpc' = "ts"
            /\ UNCHANGED sat
       ELSE /\ sat' = PpiSats[2]
            /\ kpc' = "search"
            /\ UNCHANGED ts_i
    /\ UNCHANGED <<datetimes, ppi_files, ppi_col, matches, ct, na_rate, tested,
                   kerr>>
    /\ UNCHANGED <<nvars, pvars, qvars, bvars, hvars, dvars, fvars, uvars, rvars, tvars>>

\* 2298-2313: after the timestamp loop: the debug line reads na_rate, the
\* entries without match are removed, the lengths compared and the new file
\* names entered in flx_hsi_gdf
PpiAlign ==
    /\ kpc = "ts"
    /\ ts_i > Len(datetimes)
    /\ LET dts == Keep(datetimes, 0)
           fls == Keep(ppi_files, NoPpi)
       IN  IF na_rate = Unbound
           THEN /\ kerr' = "UnboundLocalError: na_rate"
                /\ kpc' = "raised"
                /\ UNCHANGED <<datetimes, ppi_files, ppi_col>>
           ELSE /\ datetimes' = dts
                /\ ppi_files' = fls
                /\ IF Len(dts) # Len(fls)
                   THEN /\ kerr' = "RuntimeError: length of datetimes and ppi_files does not align"
                        /\ kpc' = "raised"
                        /\ UNCHANGED ppi_col
                   ELSE /\ ppi_col' =
                              [k \in DOMAIN ppi_col |->
                                  IF \E j \in 1..Len(dts) : dts[j] = k
                                  THEN fls[CHOOSE j \in 1..Len(dts) : dts[j] = k]
                                  ELSE ppi_col[k]]
                        /\ kpc' = "done"
                        /\ UNCHANGED kerr
    /\ UNCHANGED <<ts_i, sat, matches, ct, na_rate, tested>>
    /\ UNCHANGED <<nvars, pvars, qvars, bvars, hvars, dvars, fvars, uvars, rvars, tvars>>

NextPpi ==
    \/ PpiSite
    \/ PpiTimestamp
    \/ PpiSearch
    \/ PpiWhile
    \/ PpiAfterWhile
    \/ PpiAlign

SpecPpi == InitPpi /\ [][NextPpi]_vars

(***************************************************************************)
(* hsi_qc (hsicos.py 720-905): the site loop and the returned table        *)
(***************************************************************************)
MaxQcRows == 3

QcSites == {"BE-Lon", "DE-Hai"}

\* the icos_list arguments: one site, or both in either order
QcLists ==
    {<<s>> : s \in QcSites} \cup
    {l \in QcSites \X QcSites : l[1] # l[2]}

\* date = None
NoDate == 0

\* a date argument that strptime rejects
BadDate == -1

QcDates == {1, 2}

\* what the loop body 790-899 leaves in filestatus[i] for an image
QcStatuses == {"good", "missing", "nodata_warn"}

\* the status of a row that pd.concat fills in
NaNStatus == "nan"

\* 752-762: the rows of the site, or those of them with the date
DatelistIx(db, site, date) ==
    SelectSeq([k \in 1..Len(db) |-> k],
              LAMBDA k : db[k].name = site /\ (date = NoDate \/ db[k].date = date))

\* 763-901: the status list of one site; without any image file of the
\* site every entry is 'missing' (775-779)
SiteStatus(ix, found) == [i \in 1..Len(ix) |-> found[ix[i]]]

\* 902: sum(filestatus_l, [])
RECURSIVE SumLists(_)
SumLists(l) == IF l = <<>> THEN <<>> ELSE Head(l) \o SumLists(Tail(l))

\* 903-904: pd.concat([img_db[['name', 'dataTakeID']], Series], axis=1)
\* places both side by side on the row index 0, 1, ...
ConcatByIndex(db, all) ==
    LET n == IF Len(db) > Len(all) THEN Len(db) ELSE Len(all)
    IN  [k \in 1..n |->
            [name   |-> IF k <= Len(db) THEN db[k].name ELSE "nan",
             dtake  |-> IF k <= Len(db) THEN db[k].dtake ELSE 0,
             status |-> IF k <= Len(all) THEN all[k] ELSE NaNStatus]]

InitQcTable ==
    /\ \E n \in 1..MaxQcRows :
          /\ \E nm \in [1..n -> QcSites], dy \in [1..n -> QcDates] :
                t_img_db = [k \in 1..n |->
                               [name |-> nm[k], dtake |-> k, date |-> dy[k]]]
          /\ t_found \in [1..n -> QcStatuses]
    /\ t_icos_list \in QcLists
    /\ t_date \in {NoDate, 1, BadDate}
    /\ t_j = 1
    /\ filestatus_l = <<>>
    /\ filestatus_df = <<>>
    /\ tpc = "sites"
    /\ terr = ""
    /\ NearestIdle
    /\ RunIdle
    /\ QcIdle
    /\ BandsIdle
    /\ HeightsIdle
    /\ DownloadIdle
    /\ NamesIdle
    /\ ImgDbIdle
    /\ PpfdIdle
    /\ PpiIdle

\* 751-901: one pass of the site loop
QcTableSite ==
    /\ tpc = "sites"
    /\ t_j <= Len(t_icos_list)
    /\ IF t_date = BadDate
       THEN /\ terr' = "ValueError: Incorrect date format"
            /\ tpc' = "raised"
            /\ UNCHANGED <<t_j, filestatus_l>>
       ELSE /\ filestatus_l' =
                  Append(filestatus_l,
                         SiteStatus(DatelistIx(t_img_db, t_icos_list[t_j], t_date),
                                    t_found))
            /\ t_j' = t_j + 1
            /\ UNCHANGED <<tpc, terr>>
    /\ UNCHANGED <<t_img_db, t_icos_list, t_date, t_found, filestatus_df>>
    /\ UNCHANGED <<nvars, pvars, qvars, bvars, hvars, dvars, fvars, uvars, rvars, kvars>>

\* 902-905: the table that is returned
QcTableReturn ==
    /\ tpc = "sites"
    /\ t_j > Len(t_icos_list)
    /\ filestatus_df' = ConcatByIndex(t_img_db, SumLists(filestatus_l))
    /\ tpc' = "done"
    /\ UNCHANGED <<t_img_db, t_icos_list, t_date, t_found, t_j, filestatus_l, terr>>
    /\ UNCHANGED <<nvars, pvars, qvars, bvars, hvars, dvars, fvars, uvars, rvars, kvars>>

NextQcTable ==
    \/ QcTableSite
    \/ QcTableReturn

SpecQcTable == InitQcTable /\ [][NextQcTable]_vars

(***************************************************************************)
(* Properties of nearest                                                   *)
(***************************************************************************)
IsMinAt(its, t, i) == \A j \in 1..Len(its) : Key(its[i], t) <= Key(its[j], t)

FirstMinIndex(its, t) ==
    CHOOSE i \in 1..Len(its) :
        /\ IsMinAt(its, t, i)
        /\ \A j \in 1..(i - 1) : ~IsMinAt(its, t, j)

\* C1: for every non-empty list and every target, nearest returns an
\* element of the list whose absolute difference to the target is minimal,
\* and among several such elements the one that comes first in the list.
C1_NearestFirstMin ==
    (npc = "returned") =>
        /\ \E i \in 1..Len(items) : result = items[i]
        /\ \A j \in 1..Len(items) : Key(result, target) <= Key(items[j], target)
        /\ result = items[FirstMinIndex(items, target)]

\* a tie between two different values, the earlier one returned
C1_Witness ==
    /\ npc = "returned"
    /\ \E i, j \in 1..Len(items) :
          /\ i < j
          /\ items[i] # items[j]
          /\ IsMinAt(items, target, i)
          /\ IsMinAt(items, target, j)
          /\ result = items[i]


(***************************************************************************)
(* Properties of hsi_geom_crop                                             *)
(***************************************************************************)
\* the stages at which the geometry frame of the current site exists
FrameStages == {"crop_open", "crop_loop"}

\* the flux files hold no usable footprint input for the image of row rec:
\* the row of the subset at the image's own timestamp has the sentinel in
\* one of the six footprint inputs, or stands for a timestamp without record
NoFluxInput(rec) ==
    \E r \in icos_subset :
        /\ r.day = rec.day
        /\ r.slot = rec.slot
        /\ (r.metna \cap FfpFields # {} \/ r.prod = Sentinel)

FfpCalledFor(row) == \E c \in ffp_calls : c.row = row

C3_HeightNotAboveDisplacementRaises ==
    /\ \A k \in DOMAIN ZM : ZM[k] # Sentinel => ZM[k] > 0
    /\ \A c \in ffp_calls : c.zm > 0

\* Z = D passed the test D > Z: the footprint model was called with zm = 0
C3_ZeroHeightReachesFfp ==
    /\ pc = "done"
    /\ \E c \in ffp_calls : c.zm = 0


\* the radius table as the specification states it
StatedRadius ==
    [MF |-> 80, DBF |-> 80, EBF |-> 80, ENF |-> 80, SAV |-> 60, WSA |-> 60,
     GRA |-> 50, OSH |-> 50, CSH |-> 50, WET |-> 40, CRO |-> 30]

\* C4: in zonal mode the buffer radius is 80 m for MF, DBF, EBF, ENF, 60 m
\* for SAV, WSA, 50 m for GRA, OSH, CSH, 40 m for WET and 30 m for CRO, and
\* every image of the site gets the same circle of that radius; for any
\* other class the run ends before a geometry exists.
C4_ZonalRadiusByClass ==
    zonal =>
        LET eco == icos_db[CurSite]
        IN  IF eco \in DOMAIN StatedRadius
            THEN /\ pc = "geoms_loop" =>
                       \A k \in 1..NImgs : geoms[k] = Circle(StatedRadius[eco])
                 /\ pc \in FrameStages =>
                       \A k \in 1..NImgs :
                           flx_geom_gdf[k].geom = Circle(StatedRadius[eco])
                 /\ err # "ValueError: Ecosystem not supported"
            ELSE /\ pc \in {"site", "load", "geoms", "error"}
                 /\ geoms = <<>>
                 /\ flx_geom_gdf = <<>>

\* a cropland site with two images, both with the circle of 30 m
C4_Witness ==
    /\ zonal
    /\ pc \in FrameStages
    /\ icos_db[CurSite] = "CRO"
    /\ NImgs = 2
    /\ \A k \in 1..NImgs : flx_geom_gdf[k].geom = [kind |-> "circle", r |-> 30, zm |-> 0]

\* C5: in upwelling-radiance mode a record whose PAR is -9999 is not
\* cropped and not multiplied: the mask is not applied to its image and every
\* band value of the record is the missing value -9999, in the site's frame
\* and in the final output.
C5_NoParNoUpwelling ==
    upw =>
        /\ pc = "crop_loop" =>
              \A k \in 1..NImgs :
                  (k < img_i /\ flx_geom_gdf[k].par = Sentinel) =>
                      /\ CurRows[k] \notin masked
                      /\ \A b \in Bands : geom_px_avgs[k].vals[b] = Sentinel
        /\ \A j \in DOMAIN ret :
              ret[j].par = Sentinel => \A b \in Bands : ret[j].bands[b] = Sentinel
        /\ \A f \in DOMAIN flx_hsi_gdf_l : \A j \in DOMAIN flx_hsi_gdf_l[f] :
              flx_hsi_gdf_l[f][j].par = Sentinel =>
                  \A b \in Bands : flx_hsi_gdf_l[f][j].bands[b] = Sentinel

\* the output holds a record without PAR whose bands are missing beside a
\* record whose bands are products with PAR
C5_Witness ==
    /\ upw
    /\ pc = "done"
    /\ \E j \in DOMAIN ret :
          /\ ret[j].par = Sentinel
          /\ \A b \in Bands : ret[j].bands[b] = Sentinel
    /\ \E j \in DOMAIN ret :
          /\ ret[j].par = 200
          /\ \A b \in Bands : ret[j].bands[b] = 400

C7_IcosNaNeverMasked ==
    [][ /\ \A row \in 1..Len(img_db) :
              (img_db[row].clouds = "icos_na" /\ row \in masked') => row \in masked
        /\ (/\ pc = "crop_loop"
            /\ img_i <= NImgs
            /\ pc' = "crop_loop"
            /\ img_db[CurRows[img_i]].clouds = "icos_na") =>
                  geom_px_avgs'[img_i] = ScalarAvgs(Sentinel) ]_vars

\* the cropper has passed an image flagged while the geometries were built
\* and an image that carried the flag from an earlier run and has a geometry
C7_Witness ==
    /\ pc = "crop_loop"
    /\ img_i > NImgs
    /\ NImgs = 2
    /\ \E k \in 1..NImgs :
          /\ flx_geom_gdf[k].clouds = "icos_na"
          /\ flx_geom_gdf[k].geom = NoneGeom
          /\ CurRows[k] \notin masked
    /\ \E k \in 1..NImgs :
          /\ flx_geom_gdf[k].clouds = "icos_na"
          /\ flx_geom_gdf[k].geom.kind = "ffp"
          /\ CurRows[k] \notin masked

\* C8: a geometry that does not intersect the raster is not fatal: the run
\* never ends with the error of the raster mask.
C8_DisjointGeometryNotFatal ==
    ~(pc = "error" /\ err = "ValueError: Input shapes do not overlap raster.")


Flagged == {"icos_na", "hsi_na"}

\* the records of all processed sites at the step that ends the run
AllRecords ==
    IF Len(icos_list) = 1 THEN HsiFrame
    ELSE Concat(Append(flx_hsi_gdf_l, HsiFrame))

\* C10: the final output of hsi_geom_crop, for one site or several, holds no
\* record annotated 'icos_na' or 'hsi_na' and holds every record of the
\* processed sites with another annotation; a step that flags an image for
\* a missing flux record or an all-missing crop does not end the run.
C10_FlaggedExcludedRunContinues ==
    /\ [](pc = "done" => \A j \in DOMAIN ret : ret[j].clouds \notin Flagged)
    /\ [][ pc' = "done" =>
              /\ \A k \in DOMAIN AllRecords :
                    AllRecords[k].clouds \notin Flagged =>
                        \E j \in DOMAIN ret' : ret'[j] = AllRecords[k]
              /\ Len(ret') = Cardinality({k \in DOMAIN AllRecords :
                                            AllRecords[k].clouds \notin Flagged})
          ]_vars
    /\ [][ (\E row \in 1..Len(img_db) :
                /\ img_db'[row].clouds = "icos_na"
                /\ img_db[row].clouds # "icos_na") => pc' = "geoms_loop" ]_vars
    /\ [][ (\E row \in 1..Len(img_db) :
                /\ img_db'[row].clouds = "hsi_na"
                /\ img_db[row].clouds # "hsi_na") => pc' = "crop_loop" ]_vars

\* a run over two sites has ended: the image of one site was cropped to
\* missing values only and is flagged, the record of the other is the output
C10_Witness ==
    /\ pc = "done"
    /\ Len(icos_list) = 2
    /\ Len(ret) = 1
    /\ \E row \in 1..Len(img_db) :
          /\ img_db[row].clouds = "hsi_na"
          /\ row \in masked
          /\ img_db[row].name # ret[1].name


\* the images had crop and quicklook on disk when the second run began: the
\* first run rated each of them 'good' or 'nodata_warn'
OutputsExisted == \A k \in 1..NQc : returned[1][k] \in {"good", "nodata_warn"}

\* C9: when the crop pipeline runs a second time for a site whose crops and
\* quicklooks exist, with overwrite disabled, every image gets the status
\* it got in the first run.
C9_QcStatusIdempotent ==
    (qpc = "done" /\ OutputsExisted) => returned[2] = returned[1]

\* an image rated 'nodata_warn' by the first run is 'good' in the second
C9_NodataWarnTurnsGood ==
    /\ qpc = "done"
    /\ OutputsExisted
    /\ \E k \in 1..NQc :
          /\ returned[1][k] = "nodata_warn"
          /\ returned[2][k] = "good"


\* the step aggregates the pixels of the current image
Aggregates ==
    /\ pc = "crop_loop"
    /\ img_i <= NImgs
    /\ pc' = "crop_loop"
    /\ geom_px_avgs'[img_i].kind = "array"

\* C11: when every band mean of the aggregated image is missing, its
\* annotation becomes 'hsi_na' in the record and in the image table and the
\* band means stay missing; the step marks no row 'hsi_na' other than that
\* of an image whose band means are all missing.
C11_HsiNaOnlyForAllMissing ==
    [][ /\ (Aggregates /\ AllNaN(geom_px_avgs'[img_i].vals)) =>
              /\ flx_geom_gdf'[img_i].clouds = "hsi_na"
              /\ img_db'[CurRows[img_i]].clouds = "hsi_na"
        /\ \A row \in 1..Len(img_db) :
              (img_db'[row].clouds = "hsi_na" /\ img_db[row].clouds # "hsi_na") =>
                  /\ Aggregates
                  /\ row = CurRows[img_i]
                  /\ AllNaN(geom_px_avgs'[img_i].vals) ]_vars

\* the scene of the first row covers both sites: its crop at the first site
\* held no valid pixel, and the record of the second site carries 'hsi_na'
\* beside band means computed from valid pixels
C11_SharedSceneMarked ==
    /\ pc = "crop_loop"
    /\ site_j = 2
    /\ img_i > 1
    /\ img_db[1].dtake = flx_geom_gdf[1].dtake
    /\ img_db[1].clouds = "hsi_na"
    /\ 1 \in masked
    /\ flx_geom_gdf[1].clouds = "hsi_na"
    /\ geom_px_avgs[1].kind = "array"
    /\ ~AllNaN(geom_px_avgs[1].vals)


\* image k of the current site has its geometry
GeomBuilt(k) ==
    \/ (pc = "geoms_loop" /\ (zonal \/ k < img_i))
    \/ pc \in FrameStages

\* image k of the current site has its band values
Cropped(k) == pc = "crop_loop" /\ k < img_i

\* C14: for every site the import of the flux variables is complete before
\* geometry construction starts, geometry construction is complete before
\* cropping starts, and the next site is started (or the run returns) only
\* when the cropping loop has passed every image of the site.
C14_StageOrder ==
    [][ /\ pc' = "load" => pc = "site"
        /\ pc' = "geoms" => (pc = "load" /\ Len(ZM') = NImgs)
        /\ pc' = "geoms_loop" => pc \in {"geoms", "geoms_loop"}
        /\ pc' = "crop_open" =>
              /\ pc = "geoms_loop"
              /\ img_i > NImgs
              /\ Len(flx_geom_gdf') = NImgs
        /\ pc' = "crop_loop" => pc \in {"crop_open", "crop_loop"}
        /\ (pc' = "site" \/ pc' = "done") =>
              /\ pc = "crop_loop"
              /\ img_i > NImgs
              /\ \A k \in 1..NImgs : geom_px_avgs[k].kind # "unset"
        /\ site_j' # site_j => (pc' = "site" /\ site_j' = site_j + 1) ]_vars

\* the second of two sites is being cropped after the first site went
\* through all three stages
C14_Witness ==
    /\ site_j = 2
    /\ pc = "crop_loop"
    /\ Len(flx_hsi_gdf_l) = 1
    /\ Len(flx_hsi_gdf_l[1]) = 1
    /\ flx_hsi_gdf_l[1][1].bands["b001"] = 2

C20_SavedWhenReturned ==
    (pc = "done" /\ gc_save) =>
        /\ gpkg
        /\ self_flx_hsi_gdf = ret

\* a call with save=True for a single site has returned a frame with a
\* record; no file was written and self.flx_hsi_gdf was not assigned
C20_SingleSiteNotSaved ==
    /\ pc = "done"
    /\ gc_save
    /\ Len(icos_list) = 1
    /\ Len(ret) > 0
    /\ ~gpkg
    /\ self_flx_hsi_gdf = NoFrame


\* the positions in the log of the attempts of download j
AttemptsOf(j) ==
    {k \in 1..Len(dlog) : dlog[k].job = j /\ dlog[k].ev = "attempt"}

\* download j is over: it completed or its error left the function
Over(j) == j < d_i \/ (j = d_i /\ dpc = "error")

\* C16: a download whose first attempt fails with an HTTP error is attempted
\* exactly once more, after a 30-second wait, and the error of a failed second
\* attempt propagates; no download is attempted more than twice and every
\* second attempt follows a wait.
C16_OneRetryAfterWait ==
    \A j \in 1..Len(jobs) :
       /\ Cardinality(AttemptsOf(j)) <= 2
       /\ \A k \in AttemptsOf(j) :
             /\ (\E m \in AttemptsOf(j) : m < k) =>
                   (k > 1 /\ dlog[k - 1] = [job |-> j, ev |-> "sleep30", out |-> ""])
             /\ ( /\ Over(j)
                  /\ dlog[k].out = "HTTPError"
                  /\ ~ \E m \in AttemptsOf(j) : m < k ) =>
                   /\ Cardinality(AttemptsOf(j)) = 2
                   /\ k + 2 \in AttemptsOf(j)
                   /\ dlog[k + 1].ev = "sleep30"
                   /\ (dlog[k + 2].out # "ok" => derr = dlog[k + 2].out)

\* the only attempt of a reanalysis download failed with an HTTP error and
\* the error left icos_cds_get
C16_CdsFailsAtOnce ==
    /\ dpc = "error"
    /\ derr = "HTTPError"
    /\ jobs[d_i] = "cds"
    /\ Cardinality(AttemptsOf(d_i)) = 1


\* C12: images of one site with wavelength lists of different length never
\* yield band columns: the run ends with an error in crs_and_cropping or in
\* _crop_hsi_2_geoms, whether the images were cropped by one call of
\* crs_and_cropping or by different calls.
C12_MismatchRejected ==
    bpc = "returned" =>
        \A i, k \in 1..NScenes : Len(crop_wls[i]) = Len(crop_wls[k])

\* band columns were returned for two images, neither of them skipped,
\* whose crops have four and five bands
C12_MismatchedEmitted ==
    /\ bpc = "returned"
    /\ NScenes = 2
    /\ Len(crop_wls[1]) = 4
    /\ Len(crop_wls[2]) = 5
    /\ band_cols[1].kind = "array"
    /\ band_cols[2].kind = "array"

\* the indices, counted from 0, whose wavelength is nearest to the target
NearestIx(wl, tgt) ==
    {k \in 0..(Len(wl) - 1) :
        \A j \in 0..(Len(wl) - 1) :
           Abs(wl[k + 1] - tgt) <= Abs(wl[j + 1] - tgt)}

StatedUpper ==
    IF sr = "vis" THEN 7000 ELSE IF sr = "vnir" THEN 10000 ELSE 25000

\* the indices lo, lo+1, ..., hi
Range(lo, hi) == [k \in 1..(hi - lo + 1) |-> lo + k - 1]

\* C13: the bands retained for an image are exactly the contiguous index
\* range from the index of the wavelength nearest to 400 nm through the
\* index of the wavelength nearest to the upper bound of the window (700,
\* 1000 or 2500 nm), both inclusive, the wavelengths being those of the
\* site's first image; for the wavelengths 400.2, 550.0, 699.8, 710.3 and
\* the window 'vis' the retained indices are 0, 1, 2.
C13_WindowRange ==
    /\ bpc \in {"agg", "returned"} =>
          \E lo \in NearestIx(crop_wls[1], 4000) :
          \E hi \in NearestIx(crop_wls[1], StatedUpper) :
             /\ \A i \in 1..NScenes :
                   (px_bands[i].kind = "array" /\ crop_wls[i] = crop_wls[1]) =>
                       px_bands[i].ix = Range(lo, hi)
             /\ bpc = "returned" =>
                   \A i \in 1..NScenes :
                      band_cols[i].kind = "array" =>
                          band_cols[i].ix = Range(lo, hi)
    /\ ( /\ bpc = "returned"
         /\ sr = "vis"
         /\ crop_wls[1] = <<4002, 5500, 6998, 7103>>
         /\ band_cols[1].kind = "array" ) =>
             band_cols[1].ix = <<0, 1, 2>>

\* the band columns of the four-band image of the scenario were returned
\* for the window 'vis'
C13_Witness ==
    /\ bpc = "returned"
    /\ sr = "vis"
    /\ crop_wls[1] = <<4002, 5500, 6998, 7103>>
    /\ band_cols[1] = [kind |-> "array", ix |-> <<0, 1, 2>>]


\* the loop has computed the sensor height of an image with a flux record
SensorLookedUp ==
    /\ idate # NoImage
    /\ ~idate.miss
    /\ herr \in {"", "ValueError: Canopy height D > sensor height Z"}

\* C17: for an image with a flux record, Z is the height of the installation
\* record with the latest date at or before the image date; if every
\* installation record is dated after the image, Z is the height of the
\* record with the earliest date.
C17_SensorHeightAsOf ==
    SensorLookedUp =>
        \E k \in 1..Len(Z_hdates0) :
           /\ Z_img = 2 * k + 1
           /\ IF \E m \in 1..Len(Z_hdates0) : Z_hdates0[m] <= idate.date
              THEN /\ Z_hdates0[k] <= idate.date
                   /\ \A m \in 1..Len(Z_hdates0) :
                         Z_hdates0[m] <= idate.date => Z_hdates0[m] <= Z_hdates0[k]
              ELSE \A m \in 1..Len(Z_hdates0) : Z_hdates0[k] <= Z_hdates0[m]

\* the sensor was installed on day 3 (first record) and on day 1 (second
\* record); for an image of day 2 the height of the second record is used
C17_Witness ==
    /\ SensorLookedUp
    /\ Z_hdates0 = <<3, 1>>
    /\ idate.date = 2
    /\ Z_img = 5

\* the loop has looked up the canopy-height record of an image
CanopyLookedUp ==
    /\ SensorLookedUp
    /\ ~D_avg
    /\ ~D_default
    /\ Len(D_hdates) > 0

DateDistance(k) ==
    IF D_hdates[k] < idate.date THEN idate.date - D_hdates[k]
    ELSE D_hdates[k] - idate.date

\* the records whose date distance to the image is the smallest
NearestRecs ==
    {k \in 1..Len(D_hdates) :
        \A m \in 1..Len(D_hdates) : DateDistance(k) <= DateDistance(m)}

\* C18 as stated: of the records with the smallest date distance to the
\* image, be they of the same date or equally far before and after it, the
\* last one gives D.
C18_LastOfNearestRecords ==
    CanopyLookedUp =>
        \E k \in NearestRecs :
           /\ D_img = 2 * k
           /\ \A m \in NearestRecs : m <= k

\* C18, amended: the nearest date is the date of the first record, in record
\* order, with the smallest date distance; D is taken from the last record
\* of that date.
C18_LastRecordOfFirstNearestDate ==
    CanopyLookedUp =>
        \E f \in NearestRecs :
           /\ \A m \in NearestRecs : f <= m
           /\ \E k \in 1..Len(D_hdates) :
                 /\ D_hdates[k] = D_hdates[f]
                 /\ \A m \in 1..Len(D_hdates) : D_hdates[m] = D_hdates[f] => m <= k
                 /\ D_img = 2 * k

\* records of day 1 and day 3, in this order, are equally near to an image
\* of day 2: D is the height of the first record
C18_Witness ==
    /\ CanopyLookedUp
    /\ D_hdates = <<1, 3>>
    /\ idate.date = 2
    /\ D_img = 2

\* C19: for a site of class 'WET' D is 0.1 m for every image, whether or not
\* the site has a canopy-height record, and the lookup raises no error.
C19_WetlandDefault ==
    igbp = "WET" =>
        /\ herr = ""
        /\ hpc # "error"
        /\ hpc = "loop" =>
              /\ D_default
              /\ D_img = 1
              /\ (idate # NoImage /\ ~idate.miss) => ZM_i = Z_img - 1

\* an image of a wetland site without any canopy-height record has its
\* heights
C19_Witness ==
    /\ igbp = "WET"
    /\ D_hdates = <<>>
    /\ hpc = "loop"
    /\ idate # NoImage
    /\ ~idate.miss
    /\ D_img = 1
    /\ ZM_i = Z_img - 1
    /\ herr = ""


\* the processing type a call with arguments a stands for: sr counts as
\* 'vis' when upw is set
Effective(a) ==
    <<IF a.upw THEN "vis" ELSE a.sr, a.zonal, a.upw, a.aggr>>

\* C21: load_cropped_db called with the arguments hsi_geom_crop was called
\* with asks for the file hsi_geom_crop wrote, also for upw=True with sr
\* other than 'vis'; and whenever the name asked for is the name written,
\* the two calls stand for the same effective sr, mask, rad and aggr; no
\* call on another sensor or with another effective combination writes a
\* file of that name.
C21_NameRoundTrip ==
    fpc = "loaded" =>
        /\ fn_read.args = fn_args => fn_read.name = fn_written.name
        /\ fn_read.name = fn_written.name =>
              Effective(fn_read.args) = Effective(fn_args)
        /\ \A s \in Sensors, a \in NameArgs :
              FileName(s, PtypeCrop(a)) = fn_written.name =>
                  /\ s = fn_sensor
                  /\ Effective(a) = Effective(fn_args)

\* the file written for sr='vnir', upw=True is asked for with the same
\* arguments, under the name of the 'vis' product
C21_Witness ==
    /\ fpc = "loaded"
    /\ fn_args = [sr |-> "vnir", zonal |-> FALSE, upw |-> TRUE, aggr |-> "na"]
    /\ fn_read.args = fn_args
    /\ fn_sensor = "PRISMA"
    /\ fn_read.name = "all_sites_PRISMA_vis_ffp_upw_na.gpkg"
    /\ fn_written.name = fn_read.name


\* the rows of table t for the image of row r
RowsOf(t, r) ==
    {k \in 1..Len(t) : t[k].name = r.name /\ t[k].dtake = r.dtake}

\* C22: after update_img_db has returned, every row of the image table has
\* usability code 1 or 2 and stems from a row of the input table, and every
\* row of the input table with code 1 or 2 is in the image table exactly
\* once, with its code.
C22_UsableRowsOnly ==
    upc = "returned" =>
        /\ \A k \in 1..Len(u_img_db) :
              /\ u_img_db[k].usable \in {1, 2}
              /\ \E m \in RowsOf(old_img_db, u_img_db[k]) :
                    old_img_db[m].usable = u_img_db[k].usable
        /\ \A m \in 1..Len(old_img_db) :
              old_img_db[m].usable \in {1, 2} =>
                  /\ Cardinality(RowsOf(u_img_db, old_img_db[m])) = 1
                  /\ \A k \in RowsOf(u_img_db, old_img_db[m]) :
                        u_img_db[k].usable = old_img_db[m].usable

\* a table with an unusable and a maybe usable image of one scene was
\* reduced to the maybe usable one
C22_Witness ==
    /\ upc = "returned"
    /\ Len(old_img_db) = 2
    /\ old_img_db[1].usable = 0
    /\ old_img_db[2].usable = 2
    /\ old_img_db[1].dtake = old_img_db[2].dtake
    /\ Len(u_img_db) = 1
    /\ u_img_db[1].name = old_img_db[2].name
    /\ u_img_db[1].ppi_file = "ppi.tif"


\* x is an element of the list l
InList(x, l) == \E k \in 1..Len(l) : l[k] = x

\* C23: after the check, a site whose flux file has neither PPFD_IN nor
\* SW_IN_F is in no_rad and not among the sites hsi_geom_crop goes on with;
\* a site whose file lacks PPFD_IN only is in no_ppfd and stays.
C23_RadiationCheck ==
    rpc = "checked" =>
        \A k \in 1..Len(site_list) :
           /\ flux_cols[k] = {} =>
                 /\ InList(site_list[k], no_rad)
                 /\ ~InList(site_list[k], r_icos_list)
           /\ flux_cols[k] = {"SW_IN_F"} =>
                 /\ InList(site_list[k], no_ppfd)
                 /\ InList(site_list[k], r_icos_list)

\* a site without either radiation column was reported in no_ppfd, not in
\* no_rad, and stayed in the list
C23_NoRadiationSiteKept ==
    /\ rpc = "checked"
    /\ flux_cols[1] = {}
    /\ InList(site_list[1], no_ppfd)
    /\ ~InList(site_list[1], no_rad)
    /\ InList(site_list[1], r_icos_list)


\* the stages in which the subset of the current site is in use
SubsetStages == {"geoms", "geoms_loop"}

\* C24 as stated: the subset _load_icos_subset returns holds exactly one row
\* per image of the site, and _model_geoms matches every image of the site
\* to exactly one row of it, also when two images of the site fall on the
\* same calendar date.
C24_OneRowPerImage ==
    pc \in SubsetStages =>
        /\ Cardinality(icos_subset) = NImgs
        /\ \A k \in 1..NImgs :
              Cardinality(MatchedRows(icos_subset, img_db[CurRows[k]].day)) = 1

\* two images of one site on the same calendar date at different times:
\* the subset has a row for each, and the first image is matched to both
C24_SameDateMatchesTwoRows ==
    /\ pc = "geoms_loop"
    /\ NImgs = 2
    /\ img_db[CurRows[1]].day = img_db[CurRows[2]].day
    /\ img_db[CurRows[1]].slot # img_db[CurRows[2]].slot
    /\ Cardinality(icos_subset) = 2
    /\ Cardinality(MatchedRows(icos_subset, img_db[CurRows[1]].day)) = 2
    /\ ffp_params[1].kind = "frame"


\* the pass of the timestamp loop for an image has just ended after a search
PpiImageDone == kpc = "ts" /\ ts_i > 1 /\ DOMAIN matches # {}

\* the entries of tested that are files of satellite s
TestedOf(s) == SelectSeq(tested, LAMBDA t : t.sat = s)

\* the files the searches for the image returned
Candidates ==
    UNION {{[sat |-> s, off |-> o, na |-> matches[s][o]] :
                o \in DOMAIN matches[s]} : s \in DOMAIN matches}

\* C25 as stated: the files of a satellite are tested in ascending date
\* distance and the first one with an NA rate of at most 0.7 is kept; S2A is
\* searched only when S2B has no matches or all S2B files exceed 0.7; and
\* whenever some file of either satellite has an NA rate of at most 0.7,
\* the last one in the order included, the image ends with a PPI file.
C25_NearestUsableFileKept ==
    PpiImageDone =>
        LET k == ts_i - 1
        IN  /\ \A s \in DOMAIN matches :
                  \A a, b \in 1..Len(TestedOf(s)) :
                      a < b => Abs(TestedOf(s)[a].off) < Abs(TestedOf(s)[b].off)
            /\ \A j \in 1..Len(tested) :
                  (/\ tested[j].na <= NaLimit
                   /\ \A h \in 1..(j - 1) : tested[h].na > NaLimit)
                  => ppi_files[k] = FileOf(tested[j].sat, tested[j].off)
            /\ "S2A" \in DOMAIN matches =>
                  \A c \in Candidates : c.sat = "S2B" => c.na > NaLimit
            /\ (\E c \in Candidates : c.na <= NaLimit) => ppi_files[k] # NoPpi

\* the only S2B file and the only S2A file are both usable, both were
\* tested, and the image ends without PPI file and with the no-match flag
C25_UsableLastFilesDiscarded ==
    /\ PpiImageDone
    /\ Len(tested) = 2
    /\ \A c \in Candidates : c.na <= NaLimit
    /\ ppi_files[ts_i - 1] = NoPpi
    /\ datetimes[ts_i - 1] = 0

\* C26 as stated: the while loop ends after at most one pass per candidate
\* and without raising; when every S2B and S2A file exceeds 70% NA the
\* image ends with no PPI file and the no-match flag, and processing goes
\* on with the next timestamp.
C26_LoopEndsWithoutFile ==
    /\ kerr # "IndexError"
    /\ kpc = "while" => ct <= Cardinality(DOMAIN matches[sat])
    /\ (PpiImageDone /\ \A c \in Candidates : c.na > NaLimit) =>
          /\ ppi_files[ts_i - 1] = NoPpi
          /\ datetimes[ts_i - 1] = 0

\* every S2B and S2A file found exceeds the limit, each was tested once,
\* and the pass after the last S2A file raised
C26_IndexErrorAfterLastFile ==
    /\ kpc = "raised"
    /\ kerr = "IndexError"
    /\ DOMAIN matches = {"S2B", "S2A"}
    /\ Candidates # {}
    /\ \A c \in Candidates : c.na > NaLimit
    /\ ct = Cardinality(matches_datediffs(matches["S2A"]))
    /\ Len(TestedOf("S2A")) = ct

\* C27 as stated: at the end of a site's timestamp loop ppi_files[i] is
\* empty exactly when datetimes[i] is the no-match flag 0, so that the
\* alignment check never raises, for every outcome of the S2B/S2A fallback.
C27_FilesAlignWithFlags ==
    /\ kerr # "RuntimeError: length of datetimes and ppi_files does not align"
    /\ (kpc = "ts" /\ ts_i > Len(datetimes)) =>
          \A k \in 1..Len(datetimes) :
              ppi_files[k] = NoPpi <=> datetimes[k] = 0

\* all S2B files exceed the limit and S2A has no matches: the last S2B file
\* stays in ppi_files next to the no-match flag, and the check raises
C27_AlignmentCheckRaises ==
    /\ kpc = "raised"
    /\ kerr = "RuntimeError: length of datetimes and ppi_files does not align"
    /\ "S2A" \in DOMAIN matches
    /\ DOMAIN matches["S2A"] = {}
    /\ \A c \in Candidates : c.na > NaLimit
    /\ Len(ppi_files) > Len(datetimes)


\* C28 as stated: the records that survive a zonal run are the same whether
\* or not an earlier footprint run has written 'icos_na' or 'hsi_na' into
\* the shared image table: the zonal run skips an image only for missing
\* PAR in upwelling mode, and an image carries a flag that excludes it only
\* when its own crop in this run has no valid pixel. (A zonal run writes no
\* 'icos_na', and writes 'hsi_na' only for such a crop.)
C28_ZonalIgnoresEarlierFlags ==
    (zonal /\ pc = "crop_loop") =>
        \A k \in 1..NImgs :
            k < img_i =>
                /\ geom_px_avgs[k].kind = "scalar" =>
                       (upw /\ flx_geom_gdf[k].par = Sentinel)
                /\ flx_geom_gdf[k].clouds \in {"icos_na", "hsi_na"} =>
                       /\ geom_px_avgs[k].kind = "array"
                       /\ AllNaN(geom_px_avgs[k].vals)

\* a zonal run without upwelling radiance: an image with a flux record that
\* an earlier run has flagged 'icos_na' is skipped by the cropper
C28_FlaggedImageSkipped ==
    /\ zonal
    /\ ~upw
    /\ pc = "crop_loop"
    /\ \E k \in 1..NImgs :
          /\ k < img_i
          /\ flx_geom_gdf[k].clouds = "icos_na"
          /\ flx_geom_gdf[k].prod # Sentinel
          /\ flx_geom_gdf[k].geom.kind = "circle"
          /\ geom_px_avgs[k] = ScalarAvgs(Sentinel)


\* C29: in footprint mode ffp.FFP is never called with the sentinel -9999
\* in one of its seven inputs (zm, WS, PBLH, MO_LENGTH, V_SIGMA, USTAR,
\* WD); an image whose ZM was left at -9999 for want of a flux record gets
\* no footprint.
C29_NoSentinelInFfpInputs ==
    /\ \A c \in ffp_calls :
          /\ c.zm # Sentinel
          /\ c.metna \cap FfpFields = {}
    /\ (~zonal /\ pc = "geoms_loop") =>
          \A k \in 1..NImgs :
              (k < img_i /\ ZM[k] = Sentinel) => geoms[k].kind # "ffp"

\* a footprint run over two images of a site: the one without flux record
\* kept ZM = -9999 and got no footprint, the other one was passed to FFP
C29_Witness ==
    /\ ~zonal
    /\ pc = "geoms_loop"
    /\ NImgs = 2
    /\ img_i = 3
    /\ \E k \in 1..NImgs :
          /\ ZM[k] = Sentinel
          /\ geoms[k] = NoneGeom
    /\ \E c \in ffp_calls : c.zm # Sentinel


\* C30 as stated: the table hsi_qc returns has exactly one status per image
\* of the image table, and the status in row i is the status computed for
\* the image (name, dataTakeID) of row i, for any order of the sites in
\* icos_list, any subset of sites, with or without date filter.
C30_StatusRowsMatchImages ==
    tpc = "done" =>
        /\ Len(filestatus_df) = Len(t_img_db)
        /\ \A i \in 1..Len(filestatus_df) :
              /\ filestatus_df[i].name = t_img_db[i].name
              /\ filestatus_df[i].dtake = t_img_db[i].dtake
              /\ filestatus_df[i].status = t_found[i]

\* both sites of a two-row table are checked in the order opposite to the
\* table's, without date filter: each row carries the other image's status
C30_StatusOfOtherImage ==
    /\ tpc = "done"
    /\ t_date = NoDate
    /\ Len(t_img_db) = 2
    /\ Len(t_icos_list) = 2
    /\ t_img_db[1].name = t_icos_list[2]
    /\ t_img_db[2].name = t_icos_list[1]
    /\ t_found[1] # t_found[2]
    /\ filestatus_df[1].status = t_found[2]
    /\ filestatus_df[2].status = t_found[1]

====
